---- MODULE Spec2Model ----
(***************************************************************************)
(* Model of the resilient batch-execution engine of RAG4code:              *)
(*   gitlab_integration/batch_processor.py  (BatchProcessor)               *)
(*   gitlab_integration/error_handler.py    (CircuitBreaker,               *)
(*                                           retry_with_backoff,           *)
(*                                           ResilientHTTPSession,         *)
(*                                           ErrorRecoveryManager,         *)
(*                                           GracefulDegradation)          *)
(* The specifications share the variables: SpecBatch drives one            *)
(* BatchProcessor through process_project_mrs, SpecPool drives one parallel*)
(* run under fair scheduling, SpecReport applies get_analytics and         *)
(* success_rate, SpecBreaker drives one CircuitBreaker with calls that do  *)
(* not overlap, SpecBreakerThreads drives it from concurrent threads,      *)
(* SpecRetry drives one wrapped operation through retry_with_backoff,      *)
(* SpecSession one ResilientHTTPSession, SpecManager one                   *)
(* ErrorRecoveryManager and SpecFeatures one GracefulDegradation.          *)
(***************************************************************************)
EXTENDS Integers, Sequences, FiniteSets, TLC

\* ------------------------------------------------------------------------
\* Bounds of the model
\* ------------------------------------------------------------------------
MaxUnits == 2       \* longest listing returned by get_project_merge_requests
MaxWorkers == 2     \* largest parallel_workers passed to process_project_mrs
MaxThreshold == 2   \* largest failure_threshold a CircuitBreaker is built with
MaxTimeout == 2     \* largest recovery_timeout a CircuitBreaker is built with
MaxTime == 4        \* the clock (time.time()) stops advancing here
MaxCalls == 4       \* calls made through one CircuitBreaker
MaxThreads == 2     \* threads calling through one CircuitBreaker
MaxAttempts == 3    \* largest RetryConfig.max_attempts
MaxEvents == 2      \* events recorded in one ErrorRecoveryManager
MaxAge == 2         \* largest max_age_hours passed to cleanup_old_errors
MaxFailures == 2    \* largest failure_count of a feature

None == "None"
NoneStr == <<None>>     \* a None where the code expects a str

\* ------------------------------------------------------------------------
\* Strings are sequences of characters; str.lower() and the `in` operator
\* ------------------------------------------------------------------------
LowerChar(c) ==
    CASE c = "A" -> "a"
      [] c = "B" -> "b"
      [] c = "F" -> "f"
      [] OTHER -> c

Lower(s) == [i \in 1..Len(s) |-> LowerChar(s[i])]

\* Python: needle in haystack   (substring test on str)
IsSubstring(needle, hay) ==
    \E k \in 0..(Len(hay) - Len(needle)) :
        \A i \in 1..Len(needle) : hay[k + i] = needle[i]

\* Rank of a character in Python's code-point order (digits < upper < lower)
Ord(c) ==
    CASE c = "0" -> 48 [] c = "1" -> 49 [] c = "2" -> 50 [] c = "3" -> 51
      [] c = "A" -> 65 [] c = "B" -> 66 [] c = "F" -> 70
      [] c = "a" -> 97 [] c = "b" -> 98 [] c = "f" -> 102
      [] OTHER -> 120

\* Python: a >= b on str (lexicographic by code point)
RECURSIVE StrGe(_, _)
StrGe(a, b) ==
    IF b = <<>> THEN TRUE
    ELSE IF a = <<>> THEN FALSE
    ELSE IF Ord(Head(a)) > Ord(Head(b)) THEN TRUE
    ELSE IF Ord(Head(a)) < Ord(Head(b)) THEN FALSE
    ELSE StrGe(Tail(a), Tail(b))

\* ------------------------------------------------------------------------
\* Merge requests as returned by get_project_merge_requests
\* ------------------------------------------------------------------------
\* The listing for a project: MR number i of the project.  description is
\* None for an MR opened without a description (the API returns null).
Mr(i) ==
    [iid         |-> i,
     author      |-> IF i % 2 = 1 THEN <<"A", "l">> ELSE <<"b", "o">>,
     labels      |-> IF i = 3 THEN {"docs"} ELSE {"security"},
     title       |-> IF i = 2 THEN <<"d", "o", "c">> ELSE <<"F", "i", "x">>,
     description |-> IF i = 2 THEN NoneStr ELSE <<"f", "o", "o">>,
     created_at  |-> IF i = 1 THEN <<"2", "0", "1">> ELSE <<"2", "0", "3">>]

\* A filter dictionary is a function whose DOMAIN is the set of keys present
NoFilters == [k \in {} |-> <<>>]
AuthorFilter == [k \in {"author"} |-> <<"A", "L">>]
KeywordFilter == [k \in {"keywords"} |-> << <<"f", "i">> >>]
AuthorLabelFilter ==
    [k \in {"author", "labels"} |->
        IF k = "author" THEN <<"a", "l">> ELSE {"security"}]
DateFilter == [k \in {"created_after"} |-> <<"2", "0", "2">>]

FilterChoices == {NoFilters, AuthorFilter, KeywordFilter, AuthorLabelFilter, DateFilter}

\* kw in title.lower() or kw in description.lower(), for the keywords in
\* order under any(): the generator stops at the first keyword that matches
\* and raises AttributeError when it reaches a None description.
RECURSIVE AnyKeyword(_, _)
AnyKeyword(mr, kws) ==
    IF kws = <<>> THEN "false"
    ELSE IF IsSubstring(Head(kws), Lower(mr.title)) THEN "true"
    ELSE IF mr.description = NoneStr THEN "raise"
    ELSE IF IsSubstring(Head(kws), Lower(mr.description)) THEN "true"
    ELSE AnyKeyword(mr, Tail(kws))

LowerAll(kws) == [i \in 1..Len(kws) |-> Lower(kws[i])]

FilterByAuthor(mrs, filters) ==
    IF "author" \in DOMAIN filters
    THEN LET author_filter == Lower(filters["author"])
             Keep(mr) == IsSubstring(author_filter, Lower(mr.author))
         IN SelectSeq(mrs, Keep)
    ELSE mrs

FilterByLabels(mrs, filters) ==
    IF "labels" \in DOMAIN filters
    THEN LET Keep(mr) == (filters["labels"] \cap mr.labels) # {}
         IN SelectSeq(mrs, Keep)
    ELSE mrs

KeywordsRaise(mrs, filters) ==
    /\ "keywords" \in DOMAIN filters
    /\ \E i \in 1..Len(mrs) : AnyKeyword(mrs[i], LowerAll(filters["keywords"])) = "raise"

FilterByKeywords(mrs, filters) ==
    IF "keywords" \in DOMAIN filters
    THEN LET Keep(mr) == AnyKeyword(mr, LowerAll(filters["keywords"])) = "true"
         IN SelectSeq(mrs, Keep)
    ELSE mrs

FilterByDate(mrs, filters) ==
    IF "created_after" \in DOMAIN filters
    THEN LET Keep(mr) == StrGe(mr.created_at, filters["created_after"])
         IN SelectSeq(mrs, Keep)
    ELSE mrs

\* _apply_filters: the four list comprehensions in order; raised is TRUE
\* when a comprehension raises (the keyword one, on a None description).
ApplyFilters(mrs, filters) ==
    LET byAuthor == FilterByAuthor(mrs, filters)
        byLabels == FilterByLabels(byAuthor, filters)
    IN IF KeywordsRaise(byLabels, filters)
       THEN [raised |-> TRUE, mrs |-> <<>>]
       ELSE [raised |-> FALSE,
             mrs |-> FilterByDate(FilterByKeywords(byLabels, filters), filters)]

\* Python: mrs[:max_reviews]
Truncate(mrs, n) == SubSeq(mrs, 1, IF n < Len(mrs) THEN n ELSE Len(mrs))

\* _get_mrs_to_process: list, filter when filters is truthy, truncate; any
\* exception is logged and an empty list returned.
GetMrsToProcess(list, filters, max_reviews) ==
    IF list.raises THEN <<>>
    ELSE IF DOMAIN filters # {}
         THEN LET f == ApplyFilters(list.mrs, filters)
              IN IF f.raised THEN <<>> ELSE Truncate(f.mrs, max_reviews)
         ELSE Truncate(list.mrs, max_reviews)

\* ------------------------------------------------------------------------
\* State
\* ------------------------------------------------------------------------
VARIABLES
    \* --- BatchProcessor and one process_project_mrs call ---
    listing,            \* what get_project_merge_requests does: raise, or return mrs
    outcome,            \* what the collaborators do for each listed MR (by iid)
    args,               \* arguments of the process_project_mrs call
    progress_callback,  \* self.progress_callback: None or "set"
    pc,                 \* position of the main thread inside process_project_mrs
    mrs,                \* local mrs: the units to process
    results,            \* self.results
    errors,             \* local errors
    idx,                \* _process_sequential: number of loop iterations finished
    completed,          \* _process_parallel: local completed
    future,             \* _process_parallel: state of each submitted future, by position
    summary,            \* <<the returned BatchSummary>>, empty until the call returns
    progress,           \* every invocation of the progress callback, in order
    sleeps,             \* number of time.sleep(delay) calls made by the call
    invoked,            \* collaborator calls made for each unit, in order, by iid
    previous,           \* <<what the previous call on this processor returned>>
    \* --- one CircuitBreaker and the threads calling through it ---
    failure_threshold,  \* self.failure_threshold
    recovery_timeout,   \* self.recovery_timeout
    state,              \* self.state
    failure_count,      \* self.failure_count
    last_failure_time,  \* self.last_failure_time: <<>> for None, else <<t>>
    now,                \* time.time()
    tpc,                \* position of each thread inside wrapper
    read_count,         \* each thread's operand of failure_count += 1
    call,               \* each thread's current (or last) call: what it saw and did
    calls,              \* number of calls started
    streak,             \* expected failures of the operation since its last success
    \* --- one call of a function wrapped by retry_with_backoff ---
    config,             \* the RetryConfig
    rpc,                \* position inside wrapper: "loop", "returned" or "raised"
    attempt,            \* the loop variable
    last_exception,     \* local last_exception: <<>> for None, else <<exception>>
    tries,              \* what func did at each invocation so far
    slept,              \* every time.sleep(delay) made, with the attempt it follows
    retry_result,       \* <<>>, or <<value returned>> or <<exception raised>> by wrapper
    \* --- one ErrorRecoveryManager ---
    error_history,      \* self.error_history
    recovery_strategies,    \* keys of self.recovery_strategies
    fallback_handlers,  \* keys of self.fallback_handlers
    manager_return,     \* what the last call on the manager did and returned
    \* --- one GracefulDegradation ---
    feature_status,     \* self.feature_status
    feature_return,     \* what the last call of use_feature did and returned
    \* --- get_analytics and BatchSummary.success_rate ---
    analytics,          \* <<what the last get_analytics call returned>>
    rate,               \* <<what the last success_rate call returned>>
    \* --- one ResilientHTTPSession ---
    circuit_breakers,   \* self.circuit_breakers: a CircuitBreaker per service name
    session_return      \* what the last call on the session did and returned

batchVars == <<listing, outcome, args, progress_callback, pc, mrs, results, errors,
               idx, completed, future, summary, progress, sleeps, invoked, previous>>

breakerVars == <<failure_threshold, recovery_timeout, state, failure_count,
                 last_failure_time, now, tpc, read_count, call, calls, streak>>

retryVars == <<config, rpc, attempt, last_exception, tries, slept, retry_result>>

managerVars == <<error_history, recovery_strategies, fallback_handlers, manager_return>>

featureVars == <<feature_status, feature_return>>

reportVars == <<analytics, rate>>

sessionVars == <<circuit_breakers, session_return>>

vars == <<batchVars, breakerVars, retryVars, managerVars, featureVars,
          reportVars, sessionVars>>

\* ------------------------------------------------------------------------
\* BatchProcessor
\* ------------------------------------------------------------------------
\* What the collaborators do for one unit: which call raises, if any.
\*   fetch_error     get_mr_changes raises
\*   analyze_error   analyze_mr_changes raises
\*   generate_error  generate_review raises
\*   empty_summary   all succeed, review['summary'] is empty
\*   post_error      all succeed, format_for_gitlab / post_mr_note raises
\*   ok              every call succeeds
Outcomes == {"fetch_error", "analyze_error", "generate_error",
             "empty_summary", "post_error", "ok"}

\* impact_analysis.complexity_score as the analyzer of the tests reports it
AnalysisComplexity == 45

BatchResult(mr, ok, err, posted) ==
    [mr_iid |-> mr.iid, success |-> ok, error |-> err, review_posted |-> posted,
     complexity_score |-> IF ok THEN AnalysisComplexity ELSE 0]

\* _process_single_mr as it would be if review_posted were set before
\* post_mr_note is called
ProcessSingleMrPostedEarly(mr, post_review, oc) ==
    IF oc = "fetch_error"
    THEN [result |-> BatchResult(mr, FALSE, oc, FALSE),
          trace  |-> <<"get_mr_changes">>]
    ELSE IF oc = "analyze_error"
    THEN [result |-> BatchResult(mr, FALSE, oc, FALSE),
          trace  |-> <<"get_mr_changes", "analyze_mr_changes">>]
    ELSE IF oc = "generate_error"
    THEN [result |-> BatchResult(mr, FALSE, oc, FALSE),
          trace  |-> <<"get_mr_changes", "analyze_mr_changes", "generate_review">>]
    ELSE IF post_review /\ oc # "empty_summary"
    THEN [result |-> BatchResult(mr, TRUE, None, TRUE),
          trace  |-> <<"get_mr_changes", "analyze_mr_changes", "generate_review",
                       "post_mr_note">>]
    ELSE [result |-> BatchResult(mr, TRUE, None, FALSE),
          trace  |-> <<"get_mr_changes", "analyze_mr_changes", "generate_review">>]

\* _process_single_mr as it would be if a failed post_mr_note reached the
\* outer except clause
ProcessSingleMrPostFailureFails(mr, post_review, oc) ==
    IF oc = "fetch_error"
    THEN [result |-> BatchResult(mr, FALSE, oc, FALSE),
          trace  |-> <<"get_mr_changes">>]
    ELSE IF oc = "analyze_error"
    THEN [result |-> BatchResult(mr, FALSE, oc, FALSE),
          trace  |-> <<"get_mr_changes", "analyze_mr_changes">>]
    ELSE IF oc = "generate_error"
    THEN [result |-> BatchResult(mr, FALSE, oc, FALSE),
          trace  |-> <<"get_mr_changes", "analyze_mr_changes", "generate_review">>]
    ELSE IF post_review /\ oc # "empty_summary"
    THEN [result |-> BatchResult(mr, oc # "post_error",
                                 IF oc = "post_error" THEN oc ELSE None, FALSE),
          trace  |-> <<"get_mr_changes", "analyze_mr_changes", "generate_review",
                       "post_mr_note">>]
    ELSE [result |-> BatchResult(mr, TRUE, None, FALSE),
          trace  |-> <<"get_mr_changes", "analyze_mr_changes", "generate_review">>]

\* _process_single_mr: the BatchResult returned and the collaborator calls made
ProcessSingleMr(mr, post_review, oc) ==
    IF oc = "fetch_error"
    THEN [result |-> BatchResult(mr, FALSE, oc, FALSE),
          trace  |-> <<"get_mr_changes">>]
    ELSE IF oc = "analyze_error"
    THEN [result |-> BatchResult(mr, FALSE, oc, FALSE),
          trace  |-> <<"get_mr_changes", "analyze_mr_changes">>]
    ELSE IF oc = "generate_error"
    THEN [result |-> BatchResult(mr, FALSE, oc, FALSE),
          trace  |-> <<"get_mr_changes", "analyze_mr_changes", "generate_review">>]
    ELSE IF post_review /\ oc # "empty_summary"
    THEN [result |-> BatchResult(mr, TRUE, None, oc # "post_error"),
          trace  |-> <<"get_mr_changes", "analyze_mr_changes", "generate_review",
                       "post_mr_note">>]
    ELSE [result |-> BatchResult(mr, TRUE, None, FALSE),
          trace  |-> <<"get_mr_changes", "analyze_mr_changes", "generate_review">>]

IsSuccess(r) == r.success
IsPosted(r) == r.review_posted

\* sum(1 for r in self.results if r.success)
Successful(res) == Cardinality({k \in 1..Len(res) : IsSuccess(res[k])})

\* sum(1 for r in self.results if r.review_posted)
Posted(res) == Cardinality({k \in 1..Len(res) : IsPosted(res[k])})

\* process_project_mrs, "Calculate summary" onwards
ComputeSummary(res, errs) ==
    [total_mrs          |-> Len(res),
     successful_reviews |-> Successful(res),
     failed_reviews     |-> Len(res) - Successful(res),
     reviews_posted     |-> Posted(res),
     errors             |-> errs]

CreateEmptySummary ==
    [total_mrs |-> 0, successful_reviews |-> 0, failed_reviews |-> 0,
     reviews_posted |-> 0, errors |-> <<>>]

\* _update_progress: the callback is invoked only when one is set; a set
\* callback is caller code and either returns or raises.
CallbackOutcomes ==
    IF progress_callback = None THEN {"not_called"} ELSE {"returned", "raised"}

Logged(log, o, current, total, collected) ==
    IF o = "not_called" THEN log
    ELSE Append(log, [current |-> current, total |-> total,
                      outcome |-> o, collected |-> collected])

BatchFailed == "Batch processing failed"

CallbackRaised ==
    \E n \in 1..Len(progress) : progress[n].outcome = "raised"

\* process_project_mrs up to the dispatch, called with arguments a: reset,
\* enumerate, the empty case, the first progress update and (parallel) the
\* submission of all jobs.
Begin(a) ==
    /\ args' = a
    /\ LET got == GetMrsToProcess(listing, a.filters, a.max_reviews)
       IN /\ mrs' = got
          /\ results' = <<>>
          /\ errors' = <<>>
          /\ idx' = 0
          /\ completed' = 0
          /\ sleeps' = 0
          /\ invoked' = [u \in {} |-> <<>>]
          /\ IF Len(got) = 0
             THEN /\ summary' = <<CreateEmptySummary>>
                  /\ pc' = "returned"
                  /\ progress' = <<>>
                  /\ future' = [u \in {} |-> "pending"]
             ELSE \E o \in CallbackOutcomes :
                  /\ progress' = Logged(<<>>, o, 0, Len(got), 0)
                  /\ IF o = "raised"
                     THEN /\ summary' = <<ComputeSummary(<<>>, <<BatchFailed>>)>>
                          /\ pc' = "returned"
                          /\ future' = [u \in {} |-> "pending"]
                     ELSE /\ summary' = <<>>
                          /\ IF a.parallel_workers > 1
                             THEN /\ pc' = "parallel"
                                  /\ future' = [k \in 1..Len(got) |-> "pending"]
                             ELSE /\ pc' = "sequential"
                                  /\ future' = [u \in {} |-> "pending"]
    /\ UNCHANGED <<listing, outcome, progress_callback>>

\* The first process_project_mrs call on the processor
Start ==
    /\ pc = "call"
    /\ Begin(args)
    /\ UNCHANGED <<previous, breakerVars, retryVars, managerVars, reportVars, sessionVars, featureVars>>

\* the loop of _process_sequential as it would be if it slept after every
\* unit, the last included
SequentialStepSleepsAfterLast ==
    /\ pc = "sequential"
    /\ idx < Len(mrs)
    /\ LET i == idx + 1
           mr == mrs[i]
           r == ProcessSingleMr(mr, args.post_reviews, outcome[mr.iid])
       IN \E o \in CallbackOutcomes :
          /\ progress' = Logged(progress, o, i - 1, Len(mrs), Len(results))
          /\ IF o = "raised"
             THEN /\ errors' = Append(errors, BatchFailed)
                  /\ summary' = <<ComputeSummary(results, errors')>>
                  /\ pc' = "returned"
                  /\ UNCHANGED <<results, idx, sleeps, invoked>>
             ELSE /\ results' = Append(results, r.result)
                  /\ invoked' = (mr.iid :> r.trace) @@ invoked
                  /\ idx' = i
                  /\ sleeps' = IF args.delay > 0 THEN sleeps + 1 ELSE sleeps
                  /\ UNCHANGED <<errors, summary, pc>>
    /\ UNCHANGED <<retryVars, managerVars, reportVars, sessionVars, featureVars,
                   breakerVars, previous, listing, outcome, args,
                   progress_callback, mrs, completed, future>>

\* SequentialStep with a loop that skips the append for a failed unit
SequentialStepSkipsFailed ==
    /\ pc = "sequential"
    /\ idx < Len(mrs)
    /\ LET i == idx + 1
           mr == mrs[i]
           r == ProcessSingleMr(mr, args.post_reviews, outcome[mr.iid])
       IN \E o \in CallbackOutcomes :
          /\ progress' = Logged(progress, o, i - 1, Len(mrs), Len(results))
          /\ IF o = "raised"
             THEN /\ errors' = Append(errors, BatchFailed)
                  /\ summary' = <<ComputeSummary(results, errors')>>
                  /\ pc' = "returned"
                  /\ UNCHANGED <<results, idx, sleeps, invoked>>
             ELSE /\ results' = IF r.result.success
                                THEN Append(results, r.result) ELSE results
                  /\ invoked' = (mr.iid :> r.trace) @@ invoked
                  /\ idx' = i
                  /\ sleeps' = IF i < Len(mrs) /\ args.delay > 0
                               THEN sleeps + 1 ELSE sleeps
                  /\ UNCHANGED <<errors, summary, pc>>
    /\ UNCHANGED <<retryVars, managerVars, reportVars, sessionVars, featureVars, breakerVars, previous, listing, outcome, args, progress_callback, mrs, completed, future>>

\* _process_sequential: one iteration of the loop (progress, process,
\* append, sleep); a raising callback leaves the loop and the call's
\* except clause records the error.
SequentialStep ==
    /\ pc = "sequential"
    /\ idx < Len(mrs)
    /\ LET i == idx + 1
           mr == mrs[i]
           r == ProcessSingleMr(mr, args.post_reviews, outcome[mr.iid])
       IN \E o \in CallbackOutcomes :
          /\ progress' = Logged(progress, o, i - 1, Len(mrs), Len(results))
          /\ IF o = "raised"
             THEN /\ errors' = Append(errors, BatchFailed)
                  /\ summary' = <<ComputeSummary(results, errors')>>
                  /\ pc' = "returned"
                  /\ UNCHANGED <<results, idx, sleeps, invoked>>
             ELSE /\ results' = Append(results, r.result)
                  /\ invoked' = (mr.iid :> r.trace) @@ invoked
                  /\ idx' = i
                  /\ sleeps' = IF i < Len(mrs) /\ args.delay > 0
                               THEN sleeps + 1 ELSE sleeps
                  /\ UNCHANGED <<errors, summary, pc>>
    /\ UNCHANGED <<retryVars, managerVars, reportVars, sessionVars, featureVars, breakerVars, previous, listing, outcome, args, progress_callback, mrs, completed, future>>

\* _process_sequential after the loop, then the summary
SequentialFinish ==
    /\ pc = "sequential"
    /\ idx = Len(mrs)
    /\ \E o \in CallbackOutcomes :
          /\ progress' = Logged(progress, o, Len(mrs), Len(mrs), Len(results))
          /\ errors' = IF o = "raised" THEN Append(errors, BatchFailed) ELSE errors
          /\ summary' = <<ComputeSummary(results, errors')>>
          /\ pc' = "returned"
    /\ UNCHANGED <<retryVars, managerVars, reportVars, sessionVars, featureVars, breakerVars, previous, listing, outcome, args, progress_callback, mrs, results, idx,
                   completed, future, sleeps, invoked>>

Running == {k \in DOMAIN future : future[k] = "running"}

\* a pool that starts a queued job whatever the number of busy threads
WorkerStartUnbounded(k) ==
    /\ pc = "parallel"
    /\ future[k] = "pending"
    /\ \A j \in DOMAIN future : j < k => future[j] # "pending"
    /\ future' = [future EXCEPT ![k] = "running"]
    /\ UNCHANGED <<retryVars, managerVars, reportVars, sessionVars, featureVars,
                   breakerVars, previous, listing, outcome, args,
                   progress_callback, pc, mrs, results, errors, idx, completed,
                   summary, progress, sleeps, invoked>>

\* A pool thread takes the next queued job (the work queue is FIFO)
WorkerStart(k) ==
    /\ pc = "parallel"
    /\ future[k] = "pending"
    /\ \A j \in DOMAIN future : j < k => future[j] # "pending"
    /\ Cardinality(Running) < args.parallel_workers
    /\ future' = [future EXCEPT ![k] = "running"]
    /\ UNCHANGED <<retryVars, managerVars, reportVars, sessionVars, featureVars, breakerVars, previous, listing, outcome, args, progress_callback, pc, mrs, results,
                   errors, idx, completed, summary, progress, sleeps, invoked>>

\* The pool thread runs _process_single_mr and sets the future's result
WorkerFinish(k) ==
    /\ pc = "parallel"
    /\ future[k] = "running"
    /\ LET mr == mrs[k]
           r == ProcessSingleMr(mr, args.post_reviews, outcome[mr.iid])
       IN invoked' = (mr.iid :> r.trace) @@ invoked
    /\ future' = [future EXCEPT ![k] = "finished"]
    /\ UNCHANGED <<retryVars, managerVars, reportVars, sessionVars, featureVars, breakerVars, previous, listing, outcome, args, progress_callback, pc, mrs, results,
                   errors, idx, completed, summary, progress, sleeps>>

\* Collect with a failed unit's error escaping the as_completed loop: the
\* call's except clause records it and the remaining futures are dropped
CollectAborting(k) ==
    /\ pc = "parallel"
    /\ future[k] = "finished"
    /\ LET mr == mrs[k]
           r == ProcessSingleMr(mr, args.post_reviews, outcome[mr.iid])
       IN IF r.result.success
          THEN \E o \in CallbackOutcomes :
               /\ completed' = completed + 1
               /\ progress' = Logged(progress, o, completed', Len(mrs), Len(results) + 1)
               /\ results' = IF o = "raised"
                             THEN results \o <<r.result, BatchResult(mr, FALSE, "callback", FALSE)>>
                             ELSE Append(results, r.result)
               /\ sleeps' = IF args.delay > 0 THEN sleeps + 1 ELSE sleeps
               /\ future' = [future EXCEPT ![k] = "yielded"]
               /\ UNCHANGED <<pc, errors, summary>>
          ELSE /\ errors' = Append(errors, BatchFailed)
               /\ summary' = <<ComputeSummary(results, errors')>>
               /\ pc' = "returned"
               /\ UNCHANGED <<completed, progress, results, sleeps, future>>
    /\ UNCHANGED <<retryVars, managerVars, reportVars, sessionVars, featureVars, breakerVars, previous, listing, outcome, args, progress_callback, mrs, idx, invoked>>

\* Collect with self.results assigned instead of appended to
CollectOverwrites(k) ==
    /\ pc = "parallel"
    /\ future[k] = "finished"
    /\ LET mr == mrs[k]
           r == ProcessSingleMr(mr, args.post_reviews, outcome[mr.iid])
       IN \E o \in CallbackOutcomes :
          /\ completed' = completed + 1
          /\ progress' = Logged(progress, o, completed', Len(mrs), Len(results) + 1)
          /\ results' = IF o = "raised"
                        THEN <<r.result, BatchResult(mr, FALSE, "callback", FALSE)>>
                        ELSE <<r.result>>
    /\ sleeps' = IF args.delay > 0 THEN sleeps + 1 ELSE sleeps
    /\ future' = [future EXCEPT ![k] = "yielded"]
    /\ UNCHANGED <<retryVars, managerVars, reportVars, sessionVars, featureVars, breakerVars, previous, listing, outcome, args, progress_callback, pc, mrs, errors, idx,
                   summary, invoked>>

\* _process_parallel: one iteration of the as_completed loop for a future
\* that has finished.  The progress update is inside the try whose except
\* clause appends a failed BatchResult for the same MR.
Collect(k) ==
    /\ pc = "parallel"
    /\ future[k] = "finished"
    /\ LET mr == mrs[k]
           r == ProcessSingleMr(mr, args.post_reviews, outcome[mr.iid])
       IN \E o \in CallbackOutcomes :
          /\ completed' = completed + 1
          /\ progress' = Logged(progress, o, completed', Len(mrs), Len(results) + 1)
          /\ results' = IF o = "raised"
                        THEN results \o <<r.result, BatchResult(mr, FALSE, "callback", FALSE)>>
                        ELSE Append(results, r.result)
    /\ sleeps' = IF args.delay > 0 THEN sleeps + 1 ELSE sleeps
    /\ future' = [future EXCEPT ![k] = "yielded"]
    /\ UNCHANGED <<retryVars, managerVars, reportVars, sessionVars, featureVars, breakerVars, previous, listing, outcome, args, progress_callback, pc, mrs, errors, idx,
                   summary, invoked>>

\* _process_parallel after the with block (the pool is shut down), then
\* the summary
ParallelFinish ==
    /\ pc = "parallel"
    /\ \A k \in DOMAIN future : future[k] = "yielded"
    /\ \E o \in CallbackOutcomes :
          /\ progress' = Logged(progress, o, Len(mrs), Len(mrs), Len(results))
          /\ errors' = IF o = "raised" THEN Append(errors, BatchFailed) ELSE errors
          /\ summary' = <<ComputeSummary(results, errors')>>
          /\ pc' = "returned"
    /\ UNCHANGED <<retryVars, managerVars, reportVars, sessionVars, featureVars, breakerVars, previous, listing, outcome, args, progress_callback, mrs, results, idx,
                   completed, future, sleeps, invoked>>

\* The caller calls process_project_mrs a second time on the same
\* processor, same project and collaborators, with some parallel_workers
\* (the comparison run of a caller whose callback returned every time).
CallAgain(w) ==
    /\ pc = "returned"
    /\ previous = <<>>
    /\ ~CallbackRaised
    /\ previous' = <<[parallel_workers |-> args.parallel_workers,
                      summary |-> summary[1]]>>
    /\ Begin([args EXCEPT !.parallel_workers = w])
    /\ UNCHANGED <<breakerVars, retryVars, managerVars, reportVars, sessionVars, featureVars>>

\* The listings the source of record can answer with
Listings ==
    {[raises |-> TRUE, mrs |-> <<>>]}
        \cup {[raises |-> FALSE, mrs |-> [k \in 1..n |-> Mr(k)]] : n \in 0..MaxUnits}

BatchFilterChoices == {NoFilters, AuthorLabelFilter, KeywordFilter}

InitProcessor ==
    /\ listing \in Listings
    /\ outcome \in [1..Len(listing.mrs) -> Outcomes]
    /\ args \in [filters : BatchFilterChoices,
                 max_reviews : {1, MaxUnits},
                 post_reviews : BOOLEAN,
                 parallel_workers : 1..MaxWorkers,
                 delay : {0, 1}]
    /\ progress_callback \in {None, "set"}
    /\ pc = "call"
    /\ mrs = <<>>
    /\ results = <<>>
    /\ errors = <<>>
    /\ idx = 0
    /\ completed = 0
    /\ future = [u \in {} |-> "pending"]
    /\ summary = <<>>
    /\ progress = <<>>
    /\ sleeps = 0
    /\ invoked = [u \in {} |-> <<>>]
    /\ previous = <<>>

\* ------------------------------------------------------------------------
\* CircuitBreaker
\* ------------------------------------------------------------------------
Threads == 1..MaxThreads

\* What the wrapped function does when it is invoked: return, raise an
\* instance of expected_exception, or raise another exception
OpOutcomes == {"return", "raise_expected", "raise_other"}

NoCall == [entry_state |-> "none", gate |-> "none", checked_at |-> <<>>,
           invoked |-> FALSE, outcome |-> "none"]

\* CircuitBreaker.__init__
InitBreaker ==
    /\ state = "CLOSED"
    /\ failure_count = 0
    /\ last_failure_time = <<>>
    /\ now = 0
    /\ tpc = [t \in Threads |-> "idle"]
    /\ read_count = [t \in Threads |-> 0]
    /\ call = [t \in Threads |-> NoCall]
    /\ calls = 0
    /\ streak = 0

\* _should_attempt_reset
ShouldAttemptReset ==
    IF last_failure_time = <<>> THEN TRUE
    ELSE now - last_failure_time[1] >= recovery_timeout

\* "fresh" while now - last_failure < recovery_timeout, "stale" afterwards
Gate ==
    IF last_failure_time # <<>> /\ now - last_failure_time[1] < recovery_timeout
    THEN "fresh" ELSE "stale"

Done(t, o) ==
    /\ tpc' = [tpc EXCEPT ![t] = "idle"]
    /\ call' = [call EXCEPT ![t].outcome = o]

Goto(t, l) == tpc' = [tpc EXCEPT ![t] = l]

\* wrapper, line 83: if self.state == 'OPEN'
Enter(t) ==
    /\ tpc[t] = "idle"
    /\ calls < MaxCalls
    /\ calls' = calls + 1
    /\ call' = [call EXCEPT ![t] = [NoCall EXCEPT !.entry_state = state,
                                                  !.outcome = "pending"]]
    /\ Goto(t, IF state = "OPEN" THEN "check" ELSE "invoke")
    /\ UNCHANGED <<failure_threshold, recovery_timeout, state, failure_count,
                   last_failure_time, now, read_count, streak, batchVars, retryVars, managerVars, reportVars, sessionVars, featureVars>>

\* CheckReset with the comparison of _should_attempt_reset made strict (>)
CheckResetStrict(t) ==
    /\ tpc[t] = "check"
    /\ IF last_failure_time = <<>> \/ now - last_failure_time[1] > recovery_timeout
       THEN /\ Goto(t, "set_half_open")
            /\ call' = [call EXCEPT ![t].gate = Gate, ![t].checked_at = <<now>>]
       ELSE /\ tpc' = [tpc EXCEPT ![t] = "idle"]
            /\ call' = [call EXCEPT ![t].gate = Gate, ![t].checked_at = <<now>>,
                                    ![t].outcome = "circuit_open"]
    /\ UNCHANGED <<failure_threshold, recovery_timeout, state, failure_count,
                   last_failure_time, now, read_count, calls, streak, batchVars, retryVars, managerVars, reportVars, sessionVars, featureVars>>

\* wrapper, lines 84-88: if self._should_attempt_reset() ... else raise
CheckReset(t) ==
    /\ tpc[t] = "check"
    /\ IF ShouldAttemptReset
       THEN /\ Goto(t, "set_half_open")
            /\ call' = [call EXCEPT ![t].gate = Gate, ![t].checked_at = <<now>>]
       ELSE /\ tpc' = [tpc EXCEPT ![t] = "idle"]
            /\ call' = [call EXCEPT ![t].gate = Gate, ![t].checked_at = <<now>>,
                                    ![t].outcome = "circuit_open"]
    /\ UNCHANGED <<failure_threshold, recovery_timeout, state, failure_count,
                   last_failure_time, now, read_count, calls, streak, batchVars, retryVars, managerVars, reportVars, sessionVars, featureVars>>

\* wrapper, line 85: self.state = 'HALF_OPEN'
SetHalfOpen(t) ==
    /\ tpc[t] = "set_half_open"
    /\ state' = "HALF_OPEN"
    /\ Goto(t, "invoke")
    /\ UNCHANGED <<failure_threshold, recovery_timeout, failure_count,
                   last_failure_time, now, read_count, call, calls, streak, batchVars, retryVars, managerVars, reportVars, sessionVars, featureVars>>

\* wrapper as it would be if an unexpected exception on the HALF_OPEN trial
\* sent the breaker back to OPEN
InvokeUnexpectedReopens(t, o) ==
    /\ tpc[t] = "invoke"
    /\ IF o = "return"
       THEN /\ Goto(t, "success_reset")
            /\ call' = [call EXCEPT ![t].invoked = TRUE]
            /\ streak' = 0
            /\ state' = state
       ELSE IF o = "raise_expected"
       THEN /\ Goto(t, "failure_read")
            /\ call' = [call EXCEPT ![t].invoked = TRUE]
            /\ streak' = streak + 1
            /\ state' = state
       ELSE /\ tpc' = [tpc EXCEPT ![t] = "idle"]
            /\ call' = [call EXCEPT ![t].invoked = TRUE, ![t].outcome = "raised_other"]
            /\ streak' = streak
            /\ state' = IF state = "HALF_OPEN" THEN "OPEN" ELSE state
    /\ UNCHANGED <<failure_threshold, recovery_timeout, failure_count,
                   last_failure_time, now, read_count, calls, batchVars,
                   retryVars, managerVars, reportVars, sessionVars, featureVars>>

\* wrapper, lines 90-96: func(*args, **kwargs) returns or raises; an
\* exception that is no expected_exception propagates as it is
Invoke(t, o) ==
    /\ tpc[t] = "invoke"
    /\ IF o = "return"
       THEN /\ Goto(t, "success_reset")
            /\ call' = [call EXCEPT ![t].invoked = TRUE]
            /\ streak' = 0
       ELSE IF o = "raise_expected"
       THEN /\ Goto(t, "failure_read")
            /\ call' = [call EXCEPT ![t].invoked = TRUE]
            /\ streak' = streak + 1
       ELSE /\ tpc' = [tpc EXCEPT ![t] = "idle"]
            /\ call' = [call EXCEPT ![t].invoked = TRUE, ![t].outcome = "raised_other"]
            /\ streak' = streak
    /\ UNCHANGED <<failure_threshold, recovery_timeout, state, failure_count,
                   last_failure_time, now, read_count, calls, batchVars, retryVars, managerVars, reportVars, sessionVars, featureVars>>

\* SuccessReset without the reset of the counter
SuccessResetKeepsCount(t) ==
    /\ tpc[t] = "success_reset"
    /\ Goto(t, "success_check")
    /\ UNCHANGED <<failure_threshold, recovery_timeout, state, failure_count,
                   last_failure_time, now, read_count, call, calls, streak, batchVars, retryVars, managerVars, reportVars, sessionVars, featureVars>>

\* _on_success, line 108: self.failure_count = 0
SuccessReset(t) ==
    /\ tpc[t] = "success_reset"
    /\ failure_count' = 0
    /\ Goto(t, "success_check")
    /\ UNCHANGED <<failure_threshold, recovery_timeout, state, last_failure_time,
                   now, read_count, call, calls, streak, batchVars, retryVars, managerVars, reportVars, sessionVars, featureVars>>

\* _on_success, line 109: if self.state == 'HALF_OPEN'
SuccessCheck(t) ==
    /\ tpc[t] = "success_check"
    /\ IF state = "HALF_OPEN"
       THEN Goto(t, "success_close") /\ UNCHANGED call
       ELSE Done(t, "returned")
    /\ UNCHANGED <<failure_threshold, recovery_timeout, state, failure_count,
                   last_failure_time, now, read_count, calls, streak, batchVars, retryVars, managerVars, reportVars, sessionVars, featureVars>>

\* _on_success, line 110: self.state = 'CLOSED'; wrapper returns result
SuccessClose(t) ==
    /\ tpc[t] = "success_close"
    /\ state' = "CLOSED"
    /\ Done(t, "returned")
    /\ UNCHANGED <<failure_threshold, recovery_timeout, failure_count,
                   last_failure_time, now, read_count, calls, streak, batchVars, retryVars, managerVars, reportVars, sessionVars, featureVars>>

\* _on_failure, line 115: self.failure_count += 1, the load
FailureRead(t) ==
    /\ tpc[t] = "failure_read"
    /\ read_count' = [read_count EXCEPT ![t] = failure_count]
    /\ Goto(t, "failure_write")
    /\ UNCHANGED <<failure_threshold, recovery_timeout, state, failure_count,
                   last_failure_time, now, call, calls, streak, batchVars, retryVars, managerVars, reportVars, sessionVars, featureVars>>

\* _on_failure, line 115: self.failure_count += 1, the store
FailureWrite(t) ==
    /\ tpc[t] = "failure_write"
    /\ failure_count' = read_count[t] + 1
    /\ Goto(t, "failure_time")
    /\ UNCHANGED <<failure_threshold, recovery_timeout, state, last_failure_time,
                   now, read_count, call, calls, streak, batchVars, retryVars, managerVars, reportVars, sessionVars, featureVars>>

\* FailureTime recording the timestamp of the first failure only
FailureTimeFirstOnly(t) ==
    /\ tpc[t] = "failure_time"
    /\ last_failure_time' = IF last_failure_time = <<>> THEN <<now>>
                            ELSE last_failure_time
    /\ Goto(t, "failure_check")
    /\ UNCHANGED <<failure_threshold, recovery_timeout, state, failure_count,
                   now, read_count, call, calls, streak, batchVars, retryVars, managerVars, reportVars, sessionVars, featureVars>>

\* _on_failure, line 116: self.last_failure_time = time.time()
FailureTime(t) ==
    /\ tpc[t] = "failure_time"
    /\ last_failure_time' = <<now>>
    /\ Goto(t, "failure_check")
    /\ UNCHANGED <<failure_threshold, recovery_timeout, state, failure_count,
                   now, read_count, call, calls, streak, batchVars, retryVars, managerVars, reportVars, sessionVars, featureVars>>

\* _on_failure as it would be with the threshold compared strictly (>)
FailureCheckStrict(t) ==
    /\ tpc[t] = "failure_check"
    /\ IF failure_count > failure_threshold
       THEN Goto(t, "failure_open") /\ UNCHANGED call
       ELSE Done(t, "raised_expected")
    /\ UNCHANGED <<failure_threshold, recovery_timeout, state, failure_count,
                   last_failure_time, now, read_count, calls, streak, batchVars,
                   retryVars, managerVars, reportVars, sessionVars, featureVars>>

\* _on_failure, line 118: if self.failure_count >= self.failure_threshold
FailureCheck(t) ==
    /\ tpc[t] = "failure_check"
    /\ IF failure_count >= failure_threshold
       THEN Goto(t, "failure_open") /\ UNCHANGED call
       ELSE Done(t, "raised_expected")
    /\ UNCHANGED <<failure_threshold, recovery_timeout, state, failure_count,
                   last_failure_time, now, read_count, calls, streak, batchVars, retryVars, managerVars, reportVars, sessionVars, featureVars>>

\* _on_failure, line 119: self.state = 'OPEN'; wrapper re-raises e
FailureOpen(t) ==
    /\ tpc[t] = "failure_open"
    /\ state' = "OPEN"
    /\ Done(t, "raised_expected")
    /\ UNCHANGED <<failure_threshold, recovery_timeout, failure_count,
                   last_failure_time, now, read_count, calls, streak, batchVars, retryVars, managerVars, reportVars, sessionVars, featureVars>>

\* The clock advances
Tick ==
    /\ now < MaxTime
    /\ now' = now + 1
    /\ UNCHANGED <<failure_threshold, recovery_timeout, state, failure_count,
                   last_failure_time, tpc, read_count, call, calls, streak, batchVars, retryVars, managerVars, reportVars, sessionVars, featureVars>>

\* One step of thread t inside wrapper
Step(t) ==
    \/ Enter(t)
    \/ CheckReset(t)
    \/ SetHalfOpen(t)
    \/ \E o \in OpOutcomes : Invoke(t, o)
    \/ SuccessReset(t)
    \/ SuccessCheck(t)
    \/ SuccessClose(t)
    \/ FailureRead(t)
    \/ FailureWrite(t)
    \/ FailureTime(t)
    \/ FailureCheck(t)
    \/ FailureOpen(t)

\* ------------------------------------------------------------------------
\* RetryConfig and retry_with_backoff
\* ------------------------------------------------------------------------
\* What func does at one invocation: return, or raise one of these
Exceptions == {"ConnectionError", "Timeout", "HTTPError_503", "HTTPError_404",
               "ValueError"}

ExceptionClass(e) ==
    IF e \in {"HTTPError_503", "HTTPError_404"} THEN "HTTPError" ELSE e

\* RetryConfig.retry_on_exceptions
retry_on_exceptions == {"ConnectionError", "Timeout", "HTTPError"}

\* except config.retry_on_exceptions as e
IsRetryable(e) == ExceptionClass(e) \in retry_on_exceptions

RECURSIVE Power(_, _)
Power(b, n) == IF n = 0 THEN 1 ELSE b * Power(b, n - 1)

Min(a, b) == IF a < b THEN a ELSE b

\* The factor 0.5 + random.random() * 0.5 in percent (1.0 is never drawn);
\* 100 when jitter is off
JitterFactors(cfg) == IF cfg.jitter THEN {50, 75, 99} ELSE {100}

\* RetryConfig.calculate_delay for the factor drawn.  base_delay and
\* max_delay are whole numbers; exponential_base is counted in halves (1 is
\* 0.5, 2 is 1.0, 4 is 2.0), so base_delay * exponential_base ** (n - 1)
\* is base_delay * e^(n-1) / 2^(n-1).  The delay returned is counted in
\* units of 1 / (100 * 2^MaxAttempts), which keeps the result exact for
\* n <= MaxAttempts + 1.
Scaled(x) == x * Power(2, MaxAttempts) * 100

\* CalculateDelay without the min(..., self.max_delay)
CalculateDelayUncapped(cfg, n, factor) ==
    cfg.base_delay * Power(cfg.exponential_base, n - 1)
        * Power(2, MaxAttempts - (n - 1)) * factor

CalculateDelay(cfg, n, factor) ==
    Min(cfg.base_delay * Power(cfg.exponential_base, n - 1)
            * Power(2, MaxAttempts - (n - 1)),
        cfg.max_delay * Power(2, MaxAttempts)) * factor

RetryConfigs ==
    [max_attempts : 0..MaxAttempts,
     base_delay : {1, 2},
     max_delay : {3},
     exponential_base : {1, 2, 4},
     jitter : BOOLEAN]

InitRetry ==
    /\ rpc = "loop"
    /\ attempt = 1
    /\ last_exception = <<>>
    /\ tries = <<>>
    /\ slept = <<>>
    /\ retry_result = <<>>

\* RetryAttempt without the break on the last attempt: it sleeps, leaves
\* the loop and raises
RetryAttemptSleepsLast(o) ==
    /\ rpc = "loop"
    /\ attempt <= config.max_attempts
    /\ tries' = Append(tries, o)
    /\ IF o = "return"
       THEN /\ rpc' = "returned"
            /\ retry_result' = <<[value |-> attempt]>>
            /\ UNCHANGED <<attempt, last_exception, slept>>
       ELSE IF IsRetryable(o)
       THEN /\ last_exception' = <<[kind |-> o, attempt |-> attempt]>>
            /\ \E f \in JitterFactors(config) :
                    slept' = Append(slept, [after |-> attempt,
                                            delay |-> CalculateDelay(config, attempt, f)])
            /\ IF attempt = config.max_attempts
               THEN /\ rpc' = "raised"
                    /\ retry_result' = last_exception'
                    /\ UNCHANGED attempt
               ELSE /\ attempt' = attempt + 1
                    /\ UNCHANGED <<rpc, retry_result>>
       ELSE /\ rpc' = "raised"
            /\ retry_result' = <<[kind |-> o, attempt |-> attempt]>>
            /\ UNCHANGED <<attempt, last_exception, slept>>
    /\ UNCHANGED <<config, batchVars, breakerVars, managerVars, reportVars, sessionVars, featureVars>>

\* RetryAttempt with every exception caught by the first except clause
RetryAttemptRetriesAll(o) ==
    /\ rpc = "loop"
    /\ attempt <= config.max_attempts
    /\ tries' = Append(tries, o)
    /\ IF o = "return"
       THEN /\ rpc' = "returned"
            /\ retry_result' = <<[value |-> attempt]>>
            /\ UNCHANGED <<attempt, last_exception, slept>>
       ELSE /\ last_exception' = <<[kind |-> o, attempt |-> attempt]>>
            /\ IF attempt = config.max_attempts
               THEN /\ rpc' = "raised"
                    /\ retry_result' = last_exception'
                    /\ UNCHANGED <<attempt, slept>>
               ELSE \E f \in JitterFactors(config) :
                    /\ slept' = Append(slept, [after |-> attempt,
                                               delay |-> CalculateDelay(config, attempt, f)])
                    /\ attempt' = attempt + 1
                    /\ UNCHANGED <<rpc, retry_result>>
    /\ UNCHANGED <<config, batchVars, breakerVars, managerVars, reportVars, sessionVars, featureVars>>

\* wrapper: one iteration of the for loop, func doing o; the exception
\* raised at attempt n is [kind |-> o, attempt |-> n]
RetryAttempt(o) ==
    /\ rpc = "loop"
    /\ attempt <= config.max_attempts
    /\ tries' = Append(tries, o)
    /\ IF o = "return"
       THEN /\ rpc' = "returned"
            /\ retry_result' = <<[value |-> attempt]>>
            /\ UNCHANGED <<attempt, last_exception, slept>>
       ELSE IF IsRetryable(o)
       THEN /\ last_exception' = <<[kind |-> o, attempt |-> attempt]>>
            /\ IF attempt = config.max_attempts
               THEN /\ rpc' = "raised"
                    /\ retry_result' = last_exception'
                    /\ UNCHANGED <<attempt, slept>>
               ELSE \E f \in JitterFactors(config) :
                    /\ slept' = Append(slept, [after |-> attempt,
                                               delay |-> CalculateDelay(config, attempt, f)])
                    /\ attempt' = attempt + 1
                    /\ UNCHANGED <<rpc, retry_result>>
       ELSE /\ rpc' = "raised"
            /\ retry_result' = <<[kind |-> o, attempt |-> attempt]>>
            /\ UNCHANGED <<attempt, last_exception, slept>>
    /\ UNCHANGED <<config, batchVars, breakerVars, managerVars, reportVars, sessionVars, featureVars>>

\* wrapper with max_attempts < 1: the loop body never runs and
\* raise last_exception raises TypeError (last_exception is None)
RetryNoAttempt ==
    /\ rpc = "loop"
    /\ attempt > config.max_attempts
    /\ rpc' = "raised"
    /\ retry_result' = <<[kind |-> "TypeError", attempt |-> 0]>>
    /\ UNCHANGED <<config, attempt, last_exception, tries, slept, batchVars, breakerVars, managerVars, reportVars, sessionVars, featureVars>>

\* ------------------------------------------------------------------------
\* ErrorRecoveryManager.  The clock is now, counted in hours.
\* ------------------------------------------------------------------------
\* type(error).__name__ of the errors handled, and the operation names
ErrorTypes == {"ValueError", "KeyError"}
Operations == {"fetch", "post"}

\* the error types and operations the callers register handlers for
StrategyKeys == {"ValueError"}
FallbackKeys == {"fetch"}

\* value names what was returned or raised; stats holds the dictionary
\* get_error_statistics returned, when it is not empty; removed is the
\* local removed of cleanup_old_errors
NoReturn ==
    [op |-> None, kind |-> None, value |-> None, trace |-> <<>>, stats |-> <<>>,
     removed |-> 0]

InitManager ==
    /\ error_history = <<>>
    /\ recovery_strategies = {}
    /\ fallback_handlers = {}
    /\ manager_return = NoReturn

\* register_recovery_strategy
RegisterRecoveryStrategy(error_type) ==
    /\ recovery_strategies' = recovery_strategies \cup {error_type}
    /\ manager_return' = [NoReturn EXCEPT !.op = "register_recovery_strategy",
                                          !.kind = "returned"]
    /\ UNCHANGED <<error_history, fallback_handlers,
                   batchVars, breakerVars, retryVars, featureVars, reportVars, sessionVars>>

\* register_fallback_handler
RegisterFallbackHandler(operation) ==
    /\ fallback_handlers' = fallback_handlers \cup {operation}
    /\ manager_return' = [NoReturn EXCEPT !.op = "register_fallback_handler",
                                          !.kind = "returned"]
    /\ UNCHANGED <<error_history, recovery_strategies,
                   batchVars, breakerVars, retryVars, featureVars, reportVars, sessionVars>>

\* What the registered strategy can do for this error: "absent" when none
\* is registered for its type
StrategyOutcomes(error) ==
    IF error \in recovery_strategies THEN {"returned", "raised"} ELSE {"absent"}

\* What the fallback can do: "unused" when the strategy returned (the
\* function has returned by then), "absent" when none is registered
FallbackOutcomes(operation, so) ==
    IF so = "returned" THEN {"unused"}
    ELSE IF operation \in fallback_handlers THEN {"returned", "raised"}
    ELSE {"absent"}

\* error_context.recovery_action when handle_error ends
RecoveryAction(so, fo) ==
    IF so = "returned" THEN "recovery_strategy_succeeded"
    ELSE IF fo = "returned" THEN "fallback_succeeded"
    ELSE "no_recovery_available"

\* HandleTrace with the fallback run even after the strategy returned
HandleTraceAlwaysFallback(so, fo) ==
    <<"append">> \o (IF so = "absent" THEN <<>> ELSE <<"strategy">>)
                 \o <<"fallback">>

\* what handle_error does, in order
HandleTrace(so, fo) ==
    <<"append">> \o (IF so = "absent" THEN <<>> ELSE <<"strategy">>)
                 \o (IF fo \in {"returned", "raised"} THEN <<"fallback">> ELSE <<>>)

\* HandleResult returning None when the strategy failed and the fallback
\* returned
HandleResultDropsFallback(error, so, fo) ==
    IF so = "returned" THEN [kind |-> "returned", value |-> "strategy_value"]
    ELSE IF fo = "returned" THEN [kind |-> "returned", value |-> None]
    ELSE [kind |-> "raised", value |-> error]

\* HandleResult letting the fallback's exception out
HandleResultRaisesLast(error, so, fo) ==
    IF so = "returned" THEN [kind |-> "returned", value |-> "strategy_value"]
    ELSE IF fo = "returned" THEN [kind |-> "returned", value |-> "fallback_value"]
    ELSE IF fo = "raised" THEN [kind |-> "raised", value |-> "fallback_error"]
    ELSE [kind |-> "raised", value |-> error]

\* what handle_error returns or raises
HandleResult(error, so, fo) ==
    IF so = "returned" THEN [kind |-> "returned", value |-> "strategy_value"]
    ELSE IF fo = "returned" THEN [kind |-> "returned", value |-> "fallback_value"]
    ELSE [kind |-> "raised", value |-> error]

\* AppendEvent overwriting the newest event
AppendEventReplacing(history, event) ==
    IF history = <<>> THEN <<event>> ELSE [history EXCEPT ![Len(history)] = event]

\* self.error_history.append(error_context)
AppendEvent(history, event) == Append(history, event)

\* handle_error(error, operation, component), the strategy doing so and the
\* fallback doing fo
HandleError(error, operation, so, fo) ==
    /\ Len(error_history) < MaxEvents
    /\ so \in StrategyOutcomes(error)
    /\ fo \in FallbackOutcomes(operation, so)
    /\ error_history' = AppendEvent(error_history,
                                    [operation       |-> operation,
                                     error_type      |-> error,
                                     timestamp       |-> now,
                                     recovery_action |-> RecoveryAction(so, fo)])
    /\ manager_return' = [op    |-> "handle_error",
                          kind  |-> HandleResult(error, so, fo).kind,
                          value |-> HandleResult(error, so, fo).value,
                          trace |-> HandleTrace(so, fo),
                          stats |-> <<>>,
                          removed |-> 0]
    /\ UNCHANGED <<recovery_strategies, fallback_handlers,
                   batchVars, breakerVars, retryVars, featureVars, reportVars, sessionVars>>

\* the events of the last hour
RecentErrors(history) ==
    SelectSeq(history, LAMBDA ev : ev.timestamp > now - 1)

CountAction(history, a) ==
    Cardinality({k \in 1..Len(history) : history[k].recovery_action = a})

\* get_error_statistics
GetErrorStatistics ==
    /\ manager_return' =
          [op    |-> "get_error_statistics",
           kind  |-> "returned",
           value |-> IF error_history = <<>> THEN "empty" ELSE "statistics",
           trace |-> <<>>,
           stats |-> IF error_history = <<>> THEN <<>>
                     ELSE <<[total_errors  |-> Len(error_history),
                             recent_errors |-> Len(RecentErrors(error_history)),
                             strategy_succeeded |->
                                 CountAction(error_history, "recovery_strategy_succeeded"),
                             fallback_succeeded |->
                                 CountAction(error_history, "fallback_succeeded"),
                             no_recovery |->
                                 CountAction(error_history, "no_recovery_available")]>>,
           removed |-> 0]
    /\ UNCHANGED <<error_history, recovery_strategies, fallback_handlers,
                   batchVars, breakerVars, retryVars, featureVars, reportVars, sessionVars>>

\* KeptEvents keeping the events at the cutoff too
KeptEventsInclusive(history, max_age_hours) ==
    SelectSeq(history, LAMBDA ev : ev.timestamp >= now - max_age_hours)

\* the list comprehension of cleanup_old_errors: cutoff = now - max_age_hours
KeptEvents(history, max_age_hours) ==
    SelectSeq(history, LAMBDA ev : ev.timestamp > now - max_age_hours)

\* cleanup_old_errors(max_age_hours)
CleanupOldErrors(max_age_hours) ==
    /\ error_history' = KeptEvents(error_history, max_age_hours)
    /\ manager_return' =
          [NoReturn EXCEPT !.op = "cleanup_old_errors",
                           !.kind = "returned",
                           !.removed = Len(error_history) - Len(error_history')]
    /\ UNCHANGED <<recovery_strategies, fallback_handlers,
                   batchVars, breakerVars, retryVars, featureVars, reportVars, sessionVars>>

\* ------------------------------------------------------------------------
\* GracefulDegradation
\* ------------------------------------------------------------------------
Features == {"search", "review"}

\* the features registered with a degraded_handler
WithDegradedHandler == {"search"}

NoFeatureReturn == [feature |-> None, kind |-> None, value |-> None, trace |-> <<>>]

InitFeatures ==
    /\ feature_status = [f \in {} |-> <<>>]
    /\ feature_return = NoFeatureReturn

\* register_feature(feature_name, health_check, degraded_handler)
RegisterFeature(feature_name) ==
    /\ feature_status' =
          [f \in DOMAIN feature_status \cup {feature_name} |->
              IF f = feature_name
              THEN [healthy          |-> TRUE,
                    degraded_handler |-> feature_name \in WithDegradedHandler,
                    last_check       |-> <<>>,
                    failure_count    |-> 0]
              ELSE feature_status[f]]
    /\ feature_return' = NoFeatureReturn
    /\ UNCHANGED <<batchVars, breakerVars, retryVars, managerVars, reportVars, sessionVars>>

\* what feature['health_check']() can do
HealthOutcomes == {"true", "false", "raise"}

\* check_feature_health: the entry of the feature after the health check did h
Checked(feature, h) ==
    [feature EXCEPT !.healthy = (h = "true"),
                    !.last_check = <<now>>,
                    !.failure_count = IF h = "true" THEN 0 ELSE @ + 1]

\* UseFeature running the primary operation whatever the health check says
UseFeatureIgnoresHealth(feature_name, h, o) ==
    /\ feature_name \in DOMAIN feature_status
    /\ h = "true" \/ feature_status[feature_name].failure_count < MaxFailures
    /\ feature_status' = [feature_status EXCEPT ![feature_name] = Checked(@, h)]
    /\ feature_return' = [feature |-> feature_name,
                          kind    |-> o,
                          value   |-> IF o = "returned" THEN "operation_value"
                                      ELSE "operation_error",
                          trace   |-> <<"health_check", "operation">>]
    /\ UNCHANGED <<batchVars, breakerVars, retryVars, managerVars, reportVars, sessionVars>>

\* use_feature(feature_name, operation) on a registered feature, the health
\* check doing h and the callable that is run (operation or
\* degraded_handler) doing o
UseFeature(feature_name, h, o) ==
    /\ feature_name \in DOMAIN feature_status
    /\ h = "true" \/ feature_status[feature_name].failure_count < MaxFailures
    /\ feature_status' = [feature_status EXCEPT ![feature_name] = Checked(@, h)]
    /\ feature_return' =
          IF h # "true"
          THEN IF feature_status[feature_name].degraded_handler
               THEN [feature |-> feature_name,
                     kind    |-> o,
                     value   |-> IF o = "returned" THEN "degraded_value"
                                 ELSE "degraded_error",
                     trace   |-> <<"health_check", "degraded_handler">>]
               ELSE [feature |-> feature_name,
                     kind    |-> "raised",
                     value   |-> "unavailable",
                     trace   |-> <<"health_check">>]
          ELSE [feature |-> feature_name,
                kind    |-> o,
                value   |-> IF o = "returned" THEN "operation_value"
                            ELSE "operation_error",
                trace   |-> <<"health_check", "operation">>]
    /\ UNCHANGED <<batchVars, breakerVars, retryVars, managerVars, reportVars, sessionVars>>

\* use_feature on a feature that is not registered
UseUnregistered(feature_name) ==
    /\ feature_name \notin DOMAIN feature_status
    /\ feature_return' = [feature |-> feature_name, kind |-> "raised",
                          value |-> "ValueError", trace |-> <<>>]
    /\ UNCHANGED <<feature_status, batchVars, breakerVars, retryVars, managerVars, reportVars, sessionVars>>

\* check_feature_health(feature_name) called directly on a registered feature
CheckFeatureHealth(feature_name, h) ==
    /\ feature_name \in DOMAIN feature_status
    /\ h = "true" \/ feature_status[feature_name].failure_count < MaxFailures
    /\ feature_status' = [feature_status EXCEPT ![feature_name] = Checked(@, h)]
    /\ feature_return' = NoFeatureReturn
    /\ UNCHANGED <<batchVars, breakerVars, retryVars, managerVars, reportVars, sessionVars>>

\* ------------------------------------------------------------------------
\* get_analytics and BatchSummary.success_rate
\* ------------------------------------------------------------------------
MaxResults == 3
MaxTotal == 10

\* a / b of Python's true division, kept exact as numerator and denominator
Ratio(n, d) == [num |-> n, den |-> d]

\* [r for r in self.results if r.success]
SuccessfulResults(res) == SelectSeq(res, IsSuccess)

\* sum(r.complexity_score for r in ...)
RECURSIVE SumComplexity(_)
SumComplexity(res) ==
    IF res = <<>> THEN 0 ELSE res[1].complexity_score + SumComplexity(Tail(res))

\* get_analytics as it would be if it averaged over every result
GetAnalyticsOverAll(res) ==
    IF res = <<>>
    THEN [empty |-> TRUE, average_complexity_score |-> Ratio(0, 1),
          success_rate |-> Ratio(0, 1)]
    ELSE [empty |-> FALSE,
          average_complexity_score |-> Ratio(SumComplexity(res), Len(res)),
          success_rate |-> Ratio(Len(SuccessfulResults(res)) * 100, Len(res))]

\* get_analytics: {} for no results, else quality.average_complexity_score
\* and success_metrics.success_rate
GetAnalytics(res) ==
    IF res = <<>>
    THEN [empty |-> TRUE, average_complexity_score |-> Ratio(0, 1),
          success_rate |-> Ratio(0, 1)]
    ELSE LET successful_results == SuccessfulResults(res)
         IN [empty |-> FALSE,
             average_complexity_score |->
                 IF successful_results # <<>>
                 THEN Ratio(SumComplexity(successful_results),
                            Len(successful_results))
                 ELSE Ratio(0, 1),
             success_rate |-> Ratio(Len(successful_results) * 100, Len(res))]

\* BatchSummary.success_rate as it would be without the zero guard
SuccessRateUnguarded(s) == Ratio(s.successful_reviews * 100, s.total_mrs)

\* BatchSummary.success_rate
SuccessRate(s) ==
    IF s.total_mrs = 0
    THEN Ratio(0, 1)
    ELSE Ratio(s.successful_reviews * 100, s.total_mrs)

InitReport ==
    /\ analytics = <<>>
    /\ rate = <<>>

CallGetAnalytics ==
    /\ analytics' = <<GetAnalytics(results)>>
    /\ UNCHANGED <<rate, batchVars, breakerVars, retryVars, managerVars,
                   featureVars, sessionVars>>

CallSuccessRate ==
    /\ summary # <<>>
    /\ rate' = <<SuccessRate(summary[1])>>
    /\ UNCHANGED <<analytics, batchVars, breakerVars, retryVars, managerVars,
                   featureVars, sessionVars>>

\* the k-th BatchResult of a finished run, with the complexity scores the
\* analyzer reports in the tests
ResultChoices(k) ==
    {[mr_iid |-> k, success |-> TRUE, error |-> None, review_posted |-> FALSE,
      complexity_score |-> c] : c \in {40, 45, 60}}
        \cup {[mr_iid |-> k, success |-> FALSE, error |-> "fetch_error",
               review_posted |-> FALSE, complexity_score |-> 0]}

ResultLists ==
    UNION {{res \in [1..n -> UNION {ResultChoices(k) : k \in 1..n}] :
               \A k \in 1..n : res[k] \in ResultChoices(k)} : n \in 0..MaxResults}


\* ------------------------------------------------------------------------
\* ResilientHTTPSession
\* ------------------------------------------------------------------------
ServiceNames == {"gitlab", "ollama"}

\* CircuitBreaker(): failure_threshold = 5, recovery_timeout = 60.0
DefaultFailureThreshold == 5
DefaultRecoveryTimeout == 60

\* what make_request does: return the response, or raise (raise_for_status
\* on a status of retry_on_status_codes, or an exception of session.request)
RequestOutcomes == {"returned", "HTTPError", "ConnectionError"}

InitSession ==
    /\ circuit_breakers = [n \in {} |-> 0]
    /\ session_return = [op |-> "none", service_name |-> None, instance |-> 0,
                         outcome |-> None, entry_state |-> None]

\* CircuitBreaker.__init__ with its defaults; instance tells objects apart
NewBreaker(instance) ==
    [instance |-> instance, state |-> "CLOSED", failure_count |-> 0,
     last_failure_time |-> <<>>]

\* get_circuit_breaker as it would be if it built a breaker on every call
GetOrCreateAlways(cbs, service_name) ==
    [n \in DOMAIN cbs \cup {service_name} |->
        IF n = service_name
        THEN NewBreaker(Cardinality(DOMAIN cbs) + 1)
        ELSE cbs[n]]

\* get_circuit_breaker: self.circuit_breakers after the call
GetOrCreate(cbs, service_name) ==
    IF service_name \notin DOMAIN cbs
    THEN [n \in DOMAIN cbs \cup {service_name} |->
             IF n = service_name
             THEN NewBreaker(Cardinality(DOMAIN cbs) + 1)
             ELSE cbs[n]]
    ELSE cbs

\* one whole call of CircuitBreaker.wrapper on breaker b at time t, the
\* operation doing o; expected_exception is Exception, so every exception
\* of the operation is an expected one
Wrapper(b, o, t) ==
    LET reset == \/ b.last_failure_time = <<>>
                 \/ t - b.last_failure_time[1] >= DefaultRecoveryTimeout
        entered == IF b.state = "OPEN" THEN [b EXCEPT !.state = "HALF_OPEN"]
                   ELSE b
        count == entered.failure_count + 1
    IN IF b.state = "OPEN" /\ ~reset
       THEN [breaker |-> b, outcome |-> "circuit_open"]
       ELSE IF o = "returned"
       THEN [breaker |-> [entered EXCEPT
                              !.failure_count = 0,
                              !.state = IF @ = "HALF_OPEN" THEN "CLOSED" ELSE @],
             outcome |-> o]
       ELSE [breaker |-> [entered EXCEPT
                              !.failure_count = count,
                              !.last_failure_time = <<t>>,
                              !.state = IF count >= DefaultFailureThreshold
                                        THEN "OPEN" ELSE @],
             outcome |-> o]

GetCircuitBreaker(service_name) ==
    /\ circuit_breakers' = GetOrCreate(circuit_breakers, service_name)
    /\ session_return' =
           [op |-> "get_circuit_breaker", service_name |-> service_name,
            instance |-> circuit_breakers'[service_name].instance,
            outcome |-> "returned",
            entry_state |-> circuit_breakers'[service_name].state]
    /\ UNCHANGED <<batchVars, breakerVars, retryVars, managerVars, featureVars,
                   reportVars>>

RequestWithResilience(service_name, o) ==
    LET cbs == GetOrCreate(circuit_breakers, service_name)
        circuit_breaker == cbs[service_name]
        r == Wrapper(circuit_breaker, o, now)
    IN /\ circuit_breakers' = [cbs EXCEPT ![service_name] = r.breaker]
       /\ session_return' =
              [op |-> "request_with_resilience", service_name |-> service_name,
               instance |-> circuit_breaker.instance, outcome |-> r.outcome,
               entry_state |-> circuit_breaker.state]
       /\ UNCHANGED <<batchVars, breakerVars, retryVars, managerVars,
                      featureVars, reportVars>>

\* time.time() moves on by one recovery timeout
Elapse ==
    /\ now < MaxTime * DefaultRecoveryTimeout
    /\ now' = now + DefaultRecoveryTimeout
    /\ UNCHANGED <<failure_threshold, recovery_timeout, state, failure_count,
                   last_failure_time, tpc, read_count, call, calls, streak,
                   batchVars, retryVars, managerVars, featureVars, reportVars,
                   sessionVars>>

\* ------------------------------------------------------------------------
\* Specifications
\* ------------------------------------------------------------------------
\* BatchProcessor.__init__ and the arguments of the call to come; the
\* breaker is constructed and unused
DefaultRetryConfig ==
    [max_attempts |-> 3, base_delay |-> 1, max_delay |-> 3, exponential_base |-> 4,
     jitter |-> TRUE]

InitBatch ==
    /\ InitProcessor
    /\ InitBreaker
    /\ failure_threshold = 1
    /\ recovery_timeout = 1
    /\ InitRetry
    /\ config = DefaultRetryConfig
    /\ InitManager
    /\ InitFeatures
    /\ InitReport
    /\ InitSession

NextBatch ==
    \/ Start
    \/ \E w \in 1..MaxWorkers : CallAgain(w)
    \/ SequentialStep
    \/ SequentialFinish
    \/ \E k \in DOMAIN future : WorkerStart(k)
    \/ \E k \in DOMAIN future : WorkerFinish(k)
    \/ \E k \in DOMAIN future : Collect(k)
    \/ ParallelFinish

SpecBatch == InitBatch /\ [][NextBatch]_vars

\* One parallel process_project_mrs call over up to one unit more than
\* MaxUnits, so that the units can outnumber the workers; the pool's threads
\* and the main thread keep being scheduled, and every collaborator call
\* ends (returns or raises)
InitPool ==
    /\ listing \in {[raises |-> FALSE, mrs |-> [k \in 1..n |-> Mr(k)]] :
                        n \in 0..(MaxUnits + 1)}
    /\ outcome \in [1..Len(listing.mrs) -> {"ok", "analyze_error"}]
    /\ args \in [filters : {NoFilters},
                 max_reviews : {MaxUnits + 1},
                 post_reviews : {TRUE},
                 parallel_workers : 2..MaxWorkers,
                 delay : {0}]
    /\ progress_callback \in {None, "set"}
    /\ pc = "call"
    /\ mrs = <<>>
    /\ results = <<>>
    /\ errors = <<>>
    /\ idx = 0
    /\ completed = 0
    /\ future = [u \in {} |-> "pending"]
    /\ summary = <<>>
    /\ progress = <<>>
    /\ sleeps = 0
    /\ invoked = [u \in {} |-> <<>>]
    /\ previous = <<>>
    /\ InitBreaker
    /\ failure_threshold = 1
    /\ recovery_timeout = 1
    /\ InitRetry
    /\ config = DefaultRetryConfig
    /\ InitManager
    /\ InitFeatures
    /\ InitReport
    /\ InitSession

NextPool ==
    \/ Start
    \/ \E k \in DOMAIN future : WorkerStart(k)
    \/ \E k \in DOMAIN future : WorkerFinish(k)
    \/ \E k \in DOMAIN future : Collect(k)
    \/ ParallelFinish

SpecPool == InitPool /\ [][NextPool]_vars /\ WF_vars(NextPool)

\* A breaker built with some failure_threshold and recovery_timeout; the
\* batch processor is constructed and not called
InitBreakerSpec ==
    /\ InitBreaker
    /\ failure_threshold \in 1..MaxThreshold
    /\ recovery_timeout \in 1..MaxTimeout
    /\ InitProcessor
    /\ listing = [raises |-> FALSE, mrs |-> <<>>]
    /\ args = [filters |-> NoFilters, max_reviews |-> 1, post_reviews |-> FALSE,
               parallel_workers |-> 1, delay |-> 0]
    /\ progress_callback = None
    /\ InitRetry
    /\ config = DefaultRetryConfig
    /\ InitManager
    /\ InitFeatures
    /\ InitReport
    /\ InitSession

\* get_analytics and success_rate called on the results and the summary a
\* finished run (or a test) left behind
InitReportSpec ==
    /\ results \in ResultLists
    /\ summary \in {<<ComputeSummary(results, <<>>)>>}
           \cup UNION {{<<[total_mrs |-> t, successful_reviews |-> s,
                           failed_reviews |-> t - s, reviews_posted |-> 0,
                           errors |-> <<>>]>> : s \in 0..t} : t \in 0..MaxTotal}
    /\ listing = [raises |-> FALSE, mrs |-> <<>>]
    /\ outcome = <<>>
    /\ args = [filters |-> NoFilters, max_reviews |-> 1, post_reviews |-> FALSE,
               parallel_workers |-> 1, delay |-> 0]
    /\ progress_callback = None
    /\ pc = "returned"
    /\ mrs = <<>>
    /\ errors = <<>>
    /\ idx = 0
    /\ completed = 0
    /\ future = [u \in {} |-> "pending"]
    /\ progress = <<>>
    /\ sleeps = 0
    /\ invoked = [u \in {} |-> <<>>]
    /\ previous = <<>>
    /\ InitBreaker
    /\ failure_threshold = 1
    /\ recovery_timeout = 1
    /\ InitRetry
    /\ config = DefaultRetryConfig
    /\ InitManager
    /\ InitFeatures
    /\ InitReport
    /\ InitSession

NextReport == CallGetAnalytics \/ CallSuccessRate

SpecReport == InitReportSpec /\ [][NextReport]_vars

\* Calls that do not overlap: one caller, each call finished before the next
NextBreaker == Step(1) \/ Tick

SpecBreaker == InitBreakerSpec /\ [][NextBreaker]_vars

\* Calls from several threads, interleaved at the reads and writes of the
\* breaker's attributes (CircuitBreaker takes no lock)
NextBreakerThreads == (\E t \in Threads : Step(t)) \/ Tick

SpecBreakerThreads == InitBreakerSpec /\ [][NextBreakerThreads]_vars

\* One wrapped function called once through retry_with_backoff(config);
\* the batch processor and the breaker are constructed and not used
InitRetrySpec ==
    /\ InitRetry
    /\ InitManager
    /\ InitFeatures
    /\ InitReport
    /\ InitSession
    /\ config \in RetryConfigs
    /\ InitBreaker
    /\ failure_threshold = 1
    /\ recovery_timeout = 1
    /\ InitProcessor
    /\ listing = [raises |-> FALSE, mrs |-> <<>>]
    /\ args = [filters |-> NoFilters, max_reviews |-> 1, post_reviews |-> FALSE,
               parallel_workers |-> 1, delay |-> 0]
    /\ progress_callback = None

NextRetry ==
    \/ \E o \in {"return"} \cup Exceptions : RetryAttempt(o)
    \/ RetryNoAttempt

SpecRetry == InitRetrySpec /\ [][NextRetry]_vars

\* Everything constructed; only what a specification drives is used
InitIdle ==
    /\ InitProcessor
    /\ listing = [raises |-> FALSE, mrs |-> <<>>]
    /\ args = [filters |-> NoFilters, max_reviews |-> 1, post_reviews |-> FALSE,
               parallel_workers |-> 1, delay |-> 0]
    /\ progress_callback = None
    /\ InitBreaker
    /\ failure_threshold = 1
    /\ recovery_timeout = 1
    /\ InitRetry
    /\ config = DefaultRetryConfig
    /\ InitManager
    /\ InitFeatures
    /\ InitReport
    /\ InitSession

\* One ErrorRecoveryManager driven by its callers as the clock advances
NextManager ==
    \/ \E error_type \in StrategyKeys : RegisterRecoveryStrategy(error_type)
    \/ \E operation \in FallbackKeys : RegisterFallbackHandler(operation)
    \/ \E error \in ErrorTypes, operation \in Operations :
          \E so \in {"absent", "returned", "raised"},
             fo \in {"absent", "unused", "returned", "raised"} :
                HandleError(error, operation, so, fo)
    \/ GetErrorStatistics
    \/ \E max_age_hours \in 0..MaxAge : CleanupOldErrors(max_age_hours)
    \/ Tick

SpecManager == InitIdle /\ [][NextManager]_vars

\* One GracefulDegradation driven by its callers as the clock advances
NextFeatures ==
    \/ \E f \in Features : RegisterFeature(f)
    \/ \E f \in Features, h \in HealthOutcomes, o \in {"returned", "raised"} :
          UseFeature(f, h, o)
    \/ \E f \in Features : UseUnregistered(f)
    \/ \E f \in Features, h \in HealthOutcomes : CheckFeatureHealth(f, h)
    \/ Tick

SpecFeatures == InitIdle /\ [][NextFeatures]_vars

\* One ResilientHTTPSession called for several services, one call at a time
NextSession ==
    \/ \E service_name \in ServiceNames : GetCircuitBreaker(service_name)
    \/ \E service_name \in ServiceNames, o \in RequestOutcomes :
          RequestWithResilience(service_name, o)
    \/ Elapse

SpecSession == InitIdle /\ [][NextSession]_vars

\* ------------------------------------------------------------------------
\* Claims about process_project_mrs (checked under SpecBatch)
\* ------------------------------------------------------------------------
ResultsFor(iid) == {n \in 1..Len(results) : results[n].mr_iid = iid}

HasFailure == \E n \in 1..Len(results) : ~results[n].success
HasSuccess == \E n \in 1..Len(results) : results[n].success

C2_AlwaysReturnsIsolated ==
    /\ (~ENABLED NextBatch) => (pc = "returned" /\ Len(summary) = 1)
    /\ pc = "returned" =>
          /\ (summary[1].errors # <<>> => CallbackRaised)
          /\ ~CallbackRaised =>
                \A k \in 1..Len(mrs) :
                    \A n \in ResultsFor(mrs[k].iid) :
                        results[n] = ProcessSingleMr(mrs[k], args.post_reviews,
                                                     outcome[mrs[k].iid]).result

C2_Witness ==
    /\ pc = "returned"
    /\ ~CallbackRaised
    /\ Len(mrs) >= 2
    /\ ~results[1].success
    /\ results[2].success
    /\ summary[1].errors = <<>>

EnumerationFailed ==
    \/ listing.raises
    \/ DOMAIN args.filters # {} /\ ApplyFilters(listing.mrs, args.filters).raised

\* C3: when the listing call or a filter raises, the returned summary
\* reports zero units and BatchSummary.errors holds an error string for
\* the failure.
C3_EnumerationFailureRecorded ==
    (pc = "returned" /\ EnumerationFailed) =>
        /\ summary[1].total_mrs = 0
        /\ summary[1].errors # <<>>

SameMode(w1, w2) == (w1 > 1) <=> (w2 > 1)

Idle(t) == tpc[t] = "idle"

Stale == last_failure_time = <<>> \/ now - last_failure_time[1] >= recovery_timeout

\* the call entered an OPEN breaker once recovery_timeout had elapsed
Trial(t) == call[t].entry_state = "OPEN" /\ call[t].gate = "stale"

\* C5 (calls that do not overlap): a call entering a CLOSED breaker is
\* passed to the operation; after a success failure_count is 0; between
\* calls failure_count is the number of failures since the last success;
\* after the failure that makes them failure_threshold in a row the state
\* is OPEN with last_failure_time set; a call entering an OPEN breaker
\* while now - last_failure_time < recovery_timeout fails with the
\* circuit-open error and the operation is not invoked.
C5_ClosedCountsOpensFailsFast ==
    /\ call[1].entry_state = "CLOSED" =>
          /\ call[1].gate = "none"
          /\ call[1].outcome # "circuit_open"
          /\ Idle(1) => call[1].invoked
    /\ (Idle(1) /\ call[1].outcome = "returned") => failure_count = 0
    /\ Idle(1) => failure_count = streak
    /\ (Idle(1) /\ call[1].outcome = "raised_expected" /\ streak >= failure_threshold) =>
          /\ state = "OPEN"
          /\ last_failure_time # <<>>
    /\ (call[1].entry_state = "OPEN" /\ call[1].gate = "fresh") =>
          /\ call[1].outcome = "circuit_open"
          /\ ~call[1].invoked

C5_Witness ==
    /\ Idle(1)
    /\ failure_threshold = 2
    /\ streak = 2
    /\ state = "OPEN"
    /\ call[1].entry_state = "OPEN"
    /\ call[1].outcome = "circuit_open"

\* C6 (calls that do not overlap): a call entering an OPEN breaker when
\* now - last_failure_time >= recovery_timeout is not rejected, the state is
\* HALF_OPEN while the operation runs and the operation is invoked; if it
\* returns the breaker is CLOSED with failure_count 0; if it raises the
\* expected exception the breaker is OPEN again with last_failure_time not
\* earlier than the moment of the check.
C6_HalfOpenTrial ==
    /\ Trial(1) =>
          /\ call[1].outcome # "circuit_open"
          /\ tpc[1] = "invoke" => state = "HALF_OPEN"
          /\ Idle(1) => call[1].invoked
    /\ (Idle(1) /\ Trial(1) /\ call[1].outcome = "returned") =>
          /\ state = "CLOSED"
          /\ failure_count = 0
    /\ (Idle(1) /\ Trial(1) /\ call[1].outcome = "raised_expected") =>
          /\ state = "OPEN"
          /\ last_failure_time # <<>>
          /\ last_failure_time[1] >= call[1].checked_at[1]

C6_Witness ==
    /\ Idle(1)
    /\ Trial(1)
    /\ call[1].outcome = "raised_expected"
    /\ state = "OPEN"
    /\ calls = MaxCalls

\* C7 as stated: between calls, state == OPEN only while
\* now - last_failure_time < recovery_timeout.
C7_OpenOnlyWhileFresh ==
    (Idle(1) /\ state = "OPEN") => ~Stale

\* C7 amended: a call is failed fast only if it entered an OPEN breaker
\* and now - last_failure_time < recovery_timeout held when it was checked
\* (the stored state stays OPEN after that until the next call).
C7_RejectsOnlyWhileFresh ==
    \A t \in Threads :
        call[t].outcome = "circuit_open" =>
            /\ call[t].entry_state = "OPEN"
            /\ call[t].gate = "fresh"

C7_Witness ==
    /\ Idle(1)
    /\ state = "OPEN"
    /\ Stale
    /\ call[1].outcome = "circuit_open"

\* C8: once the breaker is HALF_OPEN (a trial call has begun and its
\* outcome is not recorded yet), no other call arriving gets to invoke the
\* operation.
C8_SingleTrial ==
    \A t \in Threads : call[t].entry_state = "HALF_OPEN" => ~call[t].invoked

\* C9: with threads calling concurrently, k failures of the operation and
\* no success leave failure_count = k once every call has finished.
C9_NoLostUpdate ==
    ((\A t \in Threads : Idle(t)) /\ streak = calls) => failure_count = calls

\* ------------------------------------------------------------------------
\* Claims about retry_with_backoff (checked under SpecRetry)
\* ------------------------------------------------------------------------
AllRetryable == \A n \in 1..Len(tries) : IsRetryable(tries[n])

DelaysOf(n) == {CalculateDelay(config, n, f) : f \in JitterFactors(config)}

\* C10: with max_attempts = M >= 1 the operation is invoked at most M
\* times; when wrapper returns, the value is that of the last invocation,
\* the only one that returned, and every invocation before it raised a
\* retryable exception; when every invocation raised a retryable exception
\* there were exactly M of them, a sleep of calculate_delay(n) followed
\* each of attempts 1..M-1 and none followed attempt M, and the exception
\* raised is the one of attempt M.
C10_RetryAtMostMaxAttempts ==
    config.max_attempts >= 1 =>
        /\ Len(tries) <= config.max_attempts
        /\ Len(slept) <= config.max_attempts - 1
        /\ rpc = "returned" =>
              /\ tries[Len(tries)] = "return"
              /\ \A n \in 1..(Len(tries) - 1) : IsRetryable(tries[n])
              /\ retry_result = <<[value |-> Len(tries)]>>
              /\ Len(slept) = Len(tries) - 1
        /\ (rpc = "raised" /\ AllRetryable) =>
              /\ Len(tries) = config.max_attempts
              /\ Len(slept) = config.max_attempts - 1
              /\ \A n \in 1..Len(slept) :
                    /\ slept[n].after = n
                    /\ slept[n].delay \in DelaysOf(n)
              /\ retry_result = <<[kind |-> tries[config.max_attempts],
                                   attempt |-> config.max_attempts]>>

C10_Witness ==
    /\ rpc = "raised"
    /\ AllRetryable
    /\ config.max_attempts = 3
    /\ Len(tries) = 3
    /\ tries[1] # tries[3]
    /\ Len(slept) = 2

\* the exception classes the first except clause of wrapper does not catch
Unexpected == Exceptions \ {"ConnectionError", "Timeout", "HTTPError_503", "HTTPError_404"}

\* C11: an exception outside the retryable set raised at any attempt is
\* the last thing the call does: wrapper raises that same exception, the
\* operation is not invoked again and no sleep follows the attempt.
C11_UnexpectedPropagates ==
    \A n \in 1..Len(tries) :
        tries[n] \in Unexpected =>
            /\ n = Len(tries)
            /\ rpc = "raised"
            /\ retry_result = <<[kind |-> tries[n], attempt |-> n]>>
            /\ Len(slept) = n - 1

C11_Witness ==
    /\ Len(tries) = 2
    /\ tries[1] = "Timeout"
    /\ tries[2] = "ValueError"
    /\ rpc = "raised"
    /\ Len(slept) = 1

\* the transient failures: connection failure, timeout, HTTP status in
\* retry_on_status_codes
Transient == {"ConnectionError", "Timeout", "HTTPError_503"}

\* C12: only transient failures are retried; any other error (an HTTP
\* error with another 4xx status, malformed input) ends the call at once:
\* the operation was invoked once for it, without a sleep, and it is the
\* error raised.
C12_OnlyTransientRetried ==
    \A n \in 1..Len(tries) :
        tries[n] \in Exceptions \ Transient =>
            /\ n = Len(tries)
            /\ rpc = "raised"
            /\ retry_result = <<[kind |-> tries[n], attempt |-> n]>>
            /\ Len(slept) = n - 1

\* the delay without jitter, and its cap, in the units of CalculateDelay
NoJitter(n) == CalculateDelay(config, n, 100)
Cap == Scaled(config.max_delay)
Uncapped(n) ==
    config.base_delay * Power(config.exponential_base, n - 1)
        * Power(2, MaxAttempts - (n - 1)) * 100

DelayIsMin(n) ==
    /\ NoJitter(n) <= Cap
    /\ NoJitter(n) <= Uncapped(n)
    /\ NoJitter(n) \in {Cap, Uncapped(n)}

DelayJittered(n) ==
    \A d \in DelaysOf(n) : 2 * d >= NoJitter(n) /\ d <= NoJitter(n)

\* the sleeps a call made are the delays of the attempts they follow
SleptDelays == \A k \in 1..Len(slept) : slept[k].delay \in DelaysOf(slept[k].after)

\* C13 as stated: for every attempt >= 1 the delay without jitter is
\* min(base_delay * exponential_base^(attempt-1), max_delay), never exceeds
\* max_delay and does not decrease from one attempt to the next; with
\* jitter the delay is between 50% and 100% of it.
C13_DelayMonotone ==
    /\ SleptDelays
    /\ \A n \in 1..MaxAttempts : DelayIsMin(n) /\ DelayJittered(n)
    /\ \A n \in 1..(MaxAttempts - 1) : NoJitter(n) <= NoJitter(n + 1)

\* C13 amended: the same, the delay being non-decreasing in attempt when
\* exponential_base >= 1.
C13_DelayMonotoneFromBaseOne ==
    /\ SleptDelays
    /\ \A n \in 1..MaxAttempts : DelayIsMin(n) /\ DelayJittered(n)
    /\ config.exponential_base >= 2 =>
          \A n \in 1..(MaxAttempts - 1) : NoJitter(n) <= NoJitter(n + 1)

C13_Witness ==
    /\ config.exponential_base = 4
    /\ config.base_delay = 2
    /\ config.jitter
    /\ Len(slept) = 2
    /\ slept[1].delay < NoJitter(1)
    /\ NoJitter(1) < NoJitter(2)
    /\ NoJitter(2) = Cap
    /\ Uncapped(2) > Cap

\* ------------------------------------------------------------------------
\* Claims about ErrorRecoveryManager (checked under SpecManager)
\* ------------------------------------------------------------------------
\* the event the call that just ended appended
Recorded == error_history'[Len(error_history')]

Ran(trace, what) == \E k \in 1..Len(trace) : trace[k] = what

\* C14: when a strategy is registered for the type of the error and it
\* returns, handle_error returns the strategy's value, no fallback handler
\* is invoked and the event recorded for the call has recovery_action
\* recovery_strategy_succeeded.
C14_StrategyValueReturned ==
    [][\A error \in ErrorTypes, operation \in Operations :
          HandleError(error, operation, "returned", "unused") =>
              /\ error \in recovery_strategies
              /\ manager_return'.kind = "returned"
              /\ manager_return'.value = "strategy_value"
              /\ Ran(manager_return'.trace, "strategy")
              /\ ~Ran(manager_return'.trace, "fallback")
              /\ Recorded.recovery_action = "recovery_strategy_succeeded"]_vars

C14_Witness ==
    /\ manager_return.op = "handle_error"
    /\ manager_return.value = "strategy_value"
    /\ "fetch" \in fallback_handlers
    /\ error_history[Len(error_history)].operation = "fetch"
    /\ error_history[Len(error_history)].recovery_action = "recovery_strategy_succeeded"

\* C15: when no strategy is registered for the type of the error, or the
\* registered one raises, and a fallback handler registered for the
\* operation returns, handle_error returns the fallback's value, the event
\* recorded has recovery_action fallback_succeeded, and the fallback ran
\* after the strategy when there is one.
C15_FallbackValueReturned ==
    [][\A error \in ErrorTypes, operation \in Operations, so \in {"absent", "raised"} :
          HandleError(error, operation, so, "returned") =>
              /\ operation \in fallback_handlers
              /\ manager_return'.kind = "returned"
              /\ manager_return'.value = "fallback_value"
              /\ Recorded.recovery_action = "fallback_succeeded"
              /\ manager_return'.trace =
                    IF error \in recovery_strategies
                    THEN <<"append", "strategy", "fallback">>
                    ELSE <<"append", "fallback">>]_vars

C15_Witness ==
    /\ manager_return.op = "handle_error"
    /\ manager_return.value = "fallback_value"
    /\ manager_return.trace = <<"append", "strategy", "fallback">>
    /\ error_history[Len(error_history)].recovery_action = "fallback_succeeded"

\* C16: when a strategy is not registered or raises, and a fallback is not
\* registered or raises, handle_error raises the error it was given and
\* the event recorded has recovery_action no_recovery_available.
C16_OriginalErrorReraised ==
    [][\A error \in ErrorTypes, operation \in Operations,
          so \in {"absent", "raised"}, fo \in {"absent", "raised"} :
          HandleError(error, operation, so, fo) =>
              /\ manager_return'.kind = "raised"
              /\ manager_return'.value = error
              /\ Recorded.recovery_action = "no_recovery_available"]_vars

C16_Witness ==
    /\ manager_return.op = "handle_error"
    /\ manager_return.kind = "raised"
    /\ manager_return.value = "ValueError"
    /\ manager_return.trace = <<"append", "strategy", "fallback">>
    /\ error_history[Len(error_history)].recovery_action = "no_recovery_available"

IsPrefix(a, b) == Len(a) <= Len(b) /\ \A k \in 1..Len(a) : b[k] = a[k]

HandleErrorStep ==
    \E error \in ErrorTypes, operation \in Operations :
        \E so \in {"absent", "returned", "raised"},
           fo \in {"absent", "unused", "returned", "raised"} :
              HandleError(error, operation, so, fo)

ReadOrRegisterStep ==
    \/ GetErrorStatistics
    \/ \E error_type \in StrategyKeys : RegisterRecoveryStrategy(error_type)
    \/ \E operation \in FallbackKeys : RegisterFallbackHandler(operation)

CleanupStep == \E max_age_hours \in 0..MaxAge : CleanupOldErrors(max_age_hours)

\* C17: a handle_error call appends exactly one event to error_history,
\* before it runs a strategy or a fallback, and leaves the earlier events
\* as they were; get_error_statistics and the register calls leave the
\* history unchanged; a step that is not a cleanup never removes, reorders
\* or replaces an event.
C17_HistoryAppendOnly ==
    [][/\ HandleErrorStep =>
             /\ Len(error_history') = Len(error_history) + 1
             /\ IsPrefix(error_history, error_history')
             /\ manager_return'.trace[1] = "append"
             /\ \A k \in 2..Len(manager_return'.trace) :
                   manager_return'.trace[k] # "append"
       /\ ReadOrRegisterStep => error_history' = error_history
       /\ ~CleanupStep => IsPrefix(error_history, error_history')]_vars

C17_Witness ==
    /\ Len(error_history) = 2
    /\ error_history[1].recovery_action = "no_recovery_available"
    /\ error_history[2].recovery_action = "recovery_strategy_succeeded"
    /\ manager_return.op = "get_error_statistics"

\* age of an event in hours
Age(ev) == now - ev.timestamp

C19_UseFeatureByHealth ==
    [][\A f \in Features, h \in HealthOutcomes, o \in {"returned", "raised"} :
          UseFeature(f, h, o) =>
              LET r == feature_return'
              IN /\ r.trace[1] = "health_check"
                 /\ \A k \in 2..Len(r.trace) : r.trace[k] # "health_check"
                 /\ feature_status'[f].healthy = (h = "true")
                 /\ feature_status'[f].last_check = <<now>>
                 /\ h = "true" =>
                       /\ r.trace = <<"health_check", "operation">>
                       /\ r.kind = o
                       /\ r.value \in {"operation_value", "operation_error"}
                 /\ (h # "true" /\ feature_status[f].degraded_handler) =>
                       /\ r.trace = <<"health_check", "degraded_handler">>
                       /\ r.kind = o
                       /\ r.value \in {"degraded_value", "degraded_error"}
                 /\ (h # "true" /\ ~feature_status[f].degraded_handler) =>
                       /\ r.trace = <<"health_check">>
                       /\ r.kind = "raised"
                       /\ r.value = "unavailable"]_vars

C19_Witness ==
    /\ feature_return.feature = "search"
    /\ feature_return.value = "degraded_value"
    /\ ~feature_status["search"].healthy
    /\ feature_status["search"].failure_count = 2
    /\ "review" \in DOMAIN feature_status
    /\ feature_status["review"].healthy
    /\ feature_status["review"].last_check # <<>>

\* ------------------------------------------------------------------------
\* Claims about _apply_filters (checked under SpecBatch)
\* ------------------------------------------------------------------------
\* the unit meets every criterion present in the filter
Satisfies(mr, filters) ==
    /\ "author" \in DOMAIN filters =>
          IsSubstring(Lower(filters["author"]), Lower(mr.author))
    /\ "labels" \in DOMAIN filters => filters["labels"] \cap mr.labels # {}
    /\ "keywords" \in DOMAIN filters =>
          \E k \in 1..Len(filters["keywords"]) :
              \/ IsSubstring(Lower(filters["keywords"][k]), Lower(mr.title))
              \/ /\ mr.description # NoneStr
                 /\ IsSubstring(Lower(filters["keywords"][k]), Lower(mr.description))
    /\ "created_after" \in DOMAIN filters =>
          StrGe(mr.created_at, filters["created_after"])

\* C20: _apply_filters(listing, filters) returns the units of the listing
\* that meet every criterion present in the filter, in listing order; they
\* are the units of the run when max_reviews does not truncate them.
C20_FiltersConjunctive ==
    (pc # "call" /\ ~listing.raises /\ DOMAIN args.filters # {}) =>
        LET f == ApplyFilters(listing.mrs, args.filters)
            expected == SelectSeq(listing.mrs, LAMBDA mr : Satisfies(mr, args.filters))
        IN /\ ~f.raised
           /\ f.mrs = expected
           /\ args.max_reviews >= Len(expected) => mrs = expected

\* ------------------------------------------------------------------------
\* Claims about _process_single_mr (checked under SpecBatch)
\* ------------------------------------------------------------------------
\* C21: _process_single_mr calls fetch, analyze, generate and (optionally)
\* publish in that order and always returns a BatchResult; success is true
\* exactly when fetch, analyze and generate all succeeded; a failure at one
\* of those stages gives success = false with the error captured and no
\* later stage called; a publish failure leaves success true and
\* review_posted false.  (The failed result the parallel loop synthesizes
\* on its own, error "callback", is not one _process_single_mr returned.)
C21_StagesInOrder ==
    \A iid \in DOMAIN invoked :
        LET trace == invoked[iid]
            failed == outcome[iid] \in {"fetch_error", "analyze_error",
                                        "generate_error"}
            returned == {n \in ResultsFor(iid) : results[n].error # "callback"}
        IN /\ IsPrefix(trace, <<"get_mr_changes", "analyze_mr_changes",
                                "generate_review", "post_mr_note">>)
           /\ outcome[iid] = "fetch_error" => Len(trace) = 1
           /\ outcome[iid] = "analyze_error" => Len(trace) = 2
           /\ outcome[iid] = "generate_error" => Len(trace) = 3
           /\ ~failed => Len(trace) >= 3
           /\ pc = "returned" => returned # {}
           /\ \A n \in returned :
                  /\ results[n].success <=> ~failed
                  /\ ~results[n].success => results[n].error = outcome[iid]
                  /\ results[n].success => results[n].error = None
                  /\ (outcome[iid] = "post_error" /\ Len(trace) = 4)
                         => results[n].success /\ ~results[n].review_posted

C21_Witness ==
    /\ pc = "returned"
    /\ \E i, j \in DOMAIN invoked :
           /\ outcome[i] = "post_error" /\ Len(invoked[i]) = 4
           /\ outcome[j] = "analyze_error" /\ ResultsFor(j) # {}

\* ------------------------------------------------------------------------
\* Claims about get_analytics and success_rate (checked under SpecReport)
\* ------------------------------------------------------------------------
Successes == {k \in 1..Len(results) : results[k].success}

RECURSIVE ComplexityOver(_)
ComplexityOver(S) ==
    IF S = {} THEN 0
    ELSE LET k == CHOOSE x \in S : TRUE
         IN results[k].complexity_score + ComplexityOver(S \ {k})

\* the run of the example: two successes of complexity 40 and 60, one failure
ExampleRun ==
    /\ Len(results) = 3
    /\ Cardinality(Successes) = 2
    /\ {results[k].complexity_score : k \in Successes} = {40, 60}

\* C22: get_analytics returns {} for an empty result list; otherwise
\* average_complexity_score is the mean of complexity_score over the
\* successful results only and is 0 when nothing succeeded; two successes
\* of complexity 40 and 60 and one failure give total 3, successful 2,
\* failed 1 and an average of 50.
C22_AverageOverSuccesses ==
    analytics # <<>> =>
        LET a == analytics[1].average_complexity_score
            s == ComputeSummary(results, <<>>)
        IN /\ analytics[1].empty <=> results = <<>>
           /\ (results # <<>> /\ Successes = {}) => a.num = 0 /\ a.den = 1
           /\ Successes # {} =>
                  /\ a.den = Cardinality(Successes)
                  /\ a.num = ComplexityOver(Successes)
           /\ ExampleRun =>
                  /\ a.num = 50 * a.den
                  /\ s.total_mrs = 3
                  /\ s.successful_reviews = 2
                  /\ s.failed_reviews = 1

C22_Witness ==
    /\ analytics # <<>>
    /\ ExampleRun
    /\ analytics[1].average_complexity_score = Ratio(100, 2)

\* C23: success_rate() is 0.0 when total_mrs = 0 and
\* 100 * successful_reviews / total_mrs otherwise, for every total >= 0; for
\* the summary of a run it lies between 0 and 100.
C23_SuccessRate ==
    rate # <<>> =>
        LET r == rate[1]
            s == summary[1]
        IN /\ r.den > 0
           /\ s.total_mrs = 0 => r.num = 0
           /\ s.total_mrs > 0
                  => r.num * s.total_mrs = 100 * s.successful_reviews * r.den
           /\ s = ComputeSummary(results, <<>>)
                  => 0 <= r.num /\ r.num <= 100 * r.den

C23_Witness ==
    /\ rate # <<>>
    /\ summary[1].total_mrs = MaxTotal
    /\ summary[1].successful_reviews = 8
    /\ rate[1] = Ratio(800, MaxTotal)

\* ------------------------------------------------------------------------
\* Claims about ResilientHTTPSession (checked under SpecSession)
\* ------------------------------------------------------------------------
\* C24: the session keeps exactly one CircuitBreaker per service name:
\* get_circuit_breaker returns the same instance for the same name and
\* distinct instances for distinct names after any sequence of calls, and a
\* call for one service (its failures, the opening or the recovery of its
\* breaker) leaves every other service's breaker unchanged.
C24_OneBreakerPerService ==
    /\ [](\A a, b \in DOMAIN circuit_breakers :
             a # b => circuit_breakers[a].instance # circuit_breakers[b].instance)
    /\ [](session_return.op # "none" =>
             /\ session_return.service_name \in DOMAIN circuit_breakers
             /\ session_return.instance
                    = circuit_breakers[session_return.service_name].instance)
    /\ [][\A n \in DOMAIN circuit_breakers :
             /\ n \in DOMAIN circuit_breakers'
             /\ circuit_breakers'[n].instance = circuit_breakers[n].instance
             /\ n # session_return'.service_name
                    => circuit_breakers'[n] = circuit_breakers[n]]_vars

C24_Witness ==
    /\ session_return.op = "request_with_resilience"
    /\ session_return.entry_state = "OPEN"
    /\ session_return.outcome = "returned"
    /\ circuit_breakers[session_return.service_name].state = "CLOSED"
    /\ \E n \in DOMAIN circuit_breakers :
           /\ n # session_return.service_name
           /\ circuit_breakers[n].state = "OPEN"
           /\ circuit_breakers[n].failure_count >= DefaultFailureThreshold

C26_OneResultPerCompletion ==
    (pc \in {"parallel", "returned"} /\ args.parallel_workers > 1
         /\ Len(mrs) >= 1 /\ Len(progress) >= 1
         /\ progress[1].outcome = "returned") =>
        /\ Len(results) = completed
        /\ \A k \in DOMAIN future :
               Cardinality(ResultsFor(mrs[k].iid))
                   = IF future[k] = "yielded" THEN 1 ELSE 0
        /\ \A j \in 1..completed :
               /\ progress[1 + j].current = j
               /\ progress[1 + j].collected = j

\* C27: in a parallel run with W > 1 workers at most W units are being
\* processed at any moment, a unit's own steps are made once and in order
\* by the one worker that runs it, every submitted unit is eventually
\* processed, and when process_project_mrs returns the pool has been shut
\* down: no unit is pending or in flight.
C27_BoundedPool ==
    /\ [](/\ Cardinality(Running) <= args.parallel_workers
          /\ \A k \in DOMAIN future :
                 /\ mrs[k].iid \in DOMAIN invoked
                        <=> future[k] \in {"finished", "yielded"}
                 /\ future[k] = "yielded" <=> ResultsFor(mrs[k].iid) # {}
          /\ pc = "returned" =>
                 \A k \in DOMAIN future : future[k] = "yielded")
    /\ \A k \in 1..(MaxUnits + 1) :
           (pc = "parallel" /\ k \in DOMAIN future)
               ~> (pc = "returned" /\ k \in DOMAIN future
                       /\ future[k] = "yielded"
                       /\ ResultsFor(mrs[k].iid) # {})

C27_Witness ==
    /\ pc = "parallel"
    /\ Cardinality(Running) = args.parallel_workers
    /\ args.parallel_workers > 1
    /\ \E k \in DOMAIN future : future[k] = "pending"

\* ------------------------------------------------------------------------
\* Claims about the breaker's states between calls (checked under SpecBreaker)
\* ------------------------------------------------------------------------
\* C28 (failure_threshold >= 1, calls that do not overlap): between calls,
\* state == CLOSED implies failure_count < failure_threshold and state ==
\* OPEN implies failure_count >= failure_threshold with last_failure_time
\* set; HALF_OPEN is not observed between calls whose operations return or
\* raise the expected exception: it is observed only right after a call
\* whose operation raised another exception.
C28_StatesBetweenCalls ==
    Idle(1) =>
        /\ state = "CLOSED" => failure_count < failure_threshold
        /\ state = "OPEN" =>
               /\ failure_count >= failure_threshold
               /\ last_failure_time # <<>>
        /\ state = "HALF_OPEN" => call[1].outcome = "raised_other"

C28_Witness ==
    /\ Idle(1)
    /\ state = "CLOSED"
    /\ failure_count >= 1
    /\ failure_count = failure_threshold - 1
    /\ call[1].outcome = "raised_expected"

\* C29: an exception of the operation that is no expected_exception
\* propagates to the caller and is recorded neither as a success nor as a
\* failure: failure_count, last_failure_time and state are unchanged; on
\* the HALF_OPEN trial the breaker stays HALF_OPEN, and a call entering a
\* HALF_OPEN breaker is passed to the operation.
C29_UnexpectedNotRecorded ==
    /\ [][\A t \in Threads :
             (tpc[t] = "invoke" /\ call'[t].outcome = "raised_other") =>
                 /\ tpc'[t] = "idle"
                 /\ call'[t].invoked
                 /\ failure_count' = failure_count
                 /\ last_failure_time' = last_failure_time
                 /\ state' = state]_vars
    /\ []((Idle(1) /\ Trial(1) /\ call[1].outcome = "raised_other")
              => state = "HALF_OPEN")
    /\ [](call[1].entry_state = "HALF_OPEN" =>
              /\ call[1].gate = "none"
              /\ call[1].outcome # "circuit_open"
              /\ Idle(1) => call[1].invoked)

C29_Witness ==
    /\ Idle(1)
    /\ call[1].entry_state = "HALF_OPEN"
    /\ call[1].invoked
    /\ call[1].outcome = "raised_other"
    /\ state = "HALF_OPEN"
    /\ failure_count >= failure_threshold

\* ------------------------------------------------------------------------
\* Claims about publishing (checked under SpecBatch)
\* ------------------------------------------------------------------------
\* C30: for every unit, review_posted in the BatchResult _process_single_mr
\* returned for it is true if and only if the publish call was made for
\* that unit and returned; publish is called only when post_reviews is
\* set, fetch/analyze/generate succeeded and the review has a non-empty
\* summary; hence review_posted implies success, and in every summary
\* reviews_posted <= successful_reviews <= total_mrs.
C30_PostedIffPublished ==
    /\ \A iid \in DOMAIN invoked :
           LET published == "post_mr_note" \in
                                {invoked[iid][n] : n \in 1..Len(invoked[iid])}
           IN /\ published => /\ args.post_reviews
                              /\ outcome[iid] \in {"ok", "post_error"}
              /\ \A n \in ResultsFor(iid) :
                     results[n].error # "callback" =>
                         (results[n].review_posted
                              <=> (published /\ outcome[iid] # "post_error"))
    /\ \A n \in 1..Len(results) : results[n].review_posted => results[n].success
    /\ summary # <<>> =>
           /\ summary[1].reviews_posted <= summary[1].successful_reviews
           /\ summary[1].successful_reviews <= summary[1].total_mrs

C30_Witness ==
    /\ pc = "returned"
    /\ args.post_reviews
    /\ \E a, b \in 1..Len(results) :
           /\ results[a].review_posted
           /\ outcome[results[b].mr_iid] = "post_error"
           /\ results[b].success
           /\ ~results[b].review_posted
    /\ summary[1].reviews_posted < summary[1].successful_reviews

====
